---------------------------- MODULE Spec2Model ----------------------------
(***************************************************************************)
(* A model of hl7Validator.py: the message preprocessor of the main        *)
(* program, the recursive grammar matcher validateXML, the field /         *)
(* component / sub-component decomposer inside it, and fixElement.         *)
(*                                                                         *)
(* Python strings are TLA+ strings (TLC evaluates Len, SubSeq and \o on    *)
(* them), Python's None is the string None, a Python list is a sequence,   *)
(* an optional object is a sequence of length 0 or 1.                      *)
(***************************************************************************)
EXTENDS Integers, Sequences, FiniteSets, TLC

(***************************************************************************)
(* Exit codes (sysexits)                                                   *)
(***************************************************************************)
EX_OK == 0
EX_DATAERR == 65
EX_CANTCREAT == 73
EX_CONFIG == 78

None == "<None>"

(***************************************************************************)
(* Bounds of the model                                                     *)
(***************************************************************************)
MaxBody == 4

\* the number of parts (literal runs and escape tokens) of a free text
MaxParts == 3

(***************************************************************************)
(* Python string primitives                                                *)
(***************************************************************************)
Ch(s, i) == SubSeq(s, i, i)

\* s[a:b] for 0 <= a, b (Python slice, clipped to the string)
Slice(s, a, b) ==
    LET hi == IF b > Len(s) THEN Len(s) ELSE b
    IN  IF a >= hi THEN "" ELSE SubSeq(s, a + 1, hi)

\* s[a:]
SliceFrom(s, a) == Slice(s, a, Len(s))

Whitespace == {" ", "\t", "\n", "\r", "\f"}

\* s.rstrip(): s up to its last character that is not white space
RStrip(s) ==
    LET kept == {i \in 1..Len(s) : Ch(s, i) \notin Whitespace}
    IN  IF kept = {} THEN ""
        ELSE SubSeq(s, 1, CHOOSE i \in kept : \A j \in kept : j <= i)

\* s.split(sep) for a one-character separator: the pieces between the
\* occurrences of sep, in order
Split(s, sep) ==
    LET hits == {i \in 1..Len(s) : Ch(s, i) = sep}
        n == Cardinality(hits)
        cut(k) == IF k = 0 THEN 0
                  ELSE IF k = n + 1 THEN Len(s) + 1
                  ELSE CHOOSE i \in hits : Cardinality({j \in hits : j < i}) = k - 1
    IN  [k \in 1..(n + 1) |-> SubSeq(s, cut(k - 1) + 1, cut(k) - 1)]

\* 0-based index of the last occurrence of character c in s, or -1
RFind(s, c, i) ==
    LET hits == {j \in 1..i : Ch(s, j) = c}
    IN  IF hits = {} THEN 0 - 1
        ELSE (CHOOSE j \in hits : \A h \in hits : h <= j) - 1

\* os.path.basename, os.path.splitext (name part) and os.path.join
Basename(path) == SliceFrom(path, RFind(path, "/", Len(path)) + 1)

SplitextName(base) ==
    LET dot == RFind(base, ".", Len(base))
    IN  IF dot <= 0 THEN base ELSE Slice(base, 0, dot)

PathJoin(dir, name) == dir \o "/" \o name

Digits == {"0", "1", "2", "3", "4", "5", "6", "7", "8", "9"}

(***************************************************************************)
(* The Schema Repository.  The schema directory is an input of the run;    *)
(* the one below has the shape of the HL7 v2.xml XSD files (an excerpt):   *)
(* xsd:element nodes carrying ref / minOccurs / maxOccurs, attributeGroups *)
(* carrying a fixed Type and Table, complexTypes carrying an xsd:sequence. *)
(***************************************************************************)

\* <xsd:element ref=.. minOccurs=.. maxOccurs=../> : an element without children
Node(ref, minOccurs, maxOccurs) ==
    [attrib |-> [ref |-> ref, minOccurs |-> minOccurs, maxOccurs |-> maxOccurs],
     children |-> << >>]

\* An xsd:element that lacks the ref attribute (a defective schema)
NodeNoRef(minOccurs, maxOccurs) ==
    [attrib |-> [minOccurs |-> minOccurs, maxOccurs |-> maxOccurs],
     children |-> << >>]

\* Component nodes of datatypes.xsd carry ref and minOccurs
CNode(ref, minOccurs) ==
    [attrib |-> [ref |-> ref, minOccurs |-> minOccurs, maxOccurs |-> "1"],
     children |-> << >>]

\* <msgStruct>.xsd : complexType name -> its xsd:sequence or xsd:choice
messageFiles ==
    ( "ADT_A01" :>
        ( "ADT_A01.CONTENT" :> [kind |-> "sequence", list |-> <<
              Node("MSH", "1", "1"),
              Node("EVN", "1", "1"),
              Node("PID", "1", "1"),
              Node("PD1", "0", "1"),
              Node("NK1", "0", "unbounded"),
              Node("PV1", "1", "1"),
              Node("NTE", "0", "2"),
              Node("OBX", "0", "unbounded"),
              Node("ADT_A01.PROCEDURE", "0", "unbounded"),
              Node("PDA", "0", "1") >>]
       @@ "ADT_A01.PROCEDURE.CONTENT" :> [kind |-> "sequence", list |-> <<
              Node("PR1", "1", "1"),
              Node("NTE", "0", "unbounded") >>] ) )
 @@ ( "ACK" :>
        ( "ACK.CONTENT" :> [kind |-> "sequence", list |-> <<
              Node("MSH", "1", "1"),
              Node("MSA", "1", "1"),
              Node("NTE", "0", "1") >>] ) )
 @@ ( "ORU_R01" :>
        ( "ORU_R01.CONTENT" :> [kind |-> "sequence", list |-> <<
              Node("MSH", "1", "1"),
              Node("ORU_R01.RESULT", "1", "unbounded"),
              Node("NTE", "0", "1") >>]
       @@ "ORU_R01.RESULT.CONTENT" :> [kind |-> "choice", list |-> <<
              Node("OBX", "1", "1"),
              Node("NTE", "1", "1") >>] ) )
 @@ ( "ZZZ_Z01" :>
        ( "ZZZ_Z01.CONTENT" :> [kind |-> "sequence", list |-> <<
              Node("MSH", "1", "1"),
              NodeNoRef("0", "1") >>] ) )
 @@ ( "ZZZ_Z02" :>
        ( "ZZZ_Z02.CONTENT" :> [kind |-> "sequence", list |-> <<
              Node("MSH", "1", "1"),
              Node("NTE", "0", "1"),
              Node("NTE", "0", "2"),
              Node("OBX", "0", "1") >>] ) )
 @@ ( "ZZZ_Z03" :>
        ( "ZZZ_Z03.CONTENT" :> [kind |-> "sequence", list |-> <<
              Node("MSH", "1", "1"),
              Node("ZZZ_Z03.LOOP", "1", "unbounded") >>]
       @@ "ZZZ_Z03.LOOP.CONTENT" :> [kind |-> "sequence", list |-> <<
              Node("ZZZ_Z03.LOOP", "1", "1") >>] ) )

\* segments.xsd : segment code -> the xsd:sequence of <Seg>.CONTENT
segmentRoot ==
    "MSH" :> << Node("MSH.1", "1", "1"), Node("MSH.2", "1", "1"),
                Node("MSH.3", "0", "1"), Node("MSH.4", "0", "1"),
                Node("MSH.5", "0", "1"), Node("MSH.6", "0", "1"),
                Node("MSH.7", "0", "1"), Node("MSH.8", "0", "1"),
                Node("MSH.9", "1", "1"), Node("MSH.10", "1", "1"),
                Node("MSH.11", "1", "1"), Node("MSH.12", "1", "1") >>
 @@ "EVN" :> << Node("EVN.1", "0", "1"), Node("EVN.2", "1", "1") >>
 @@ "PID" :> << Node("PID.1", "0", "1"), Node("PID.2", "0", "1"),
                Node("PID.3", "1", "unbounded"), Node("PID.4", "0", "1"),
                Node("PID.5", "1", "unbounded"), Node("PID.6", "0", "1"),
                Node("PID.7", "0", "1"), Node("PID.8", "0", "1") >>
 @@ "PD1" :> << Node("PD1.1", "0", "1"), Node("PD1.2", "0", "1") >>
 @@ "NK1" :> << Node("NK1.1", "1", "1"), Node("NK1.2", "0", "unbounded"),
                Node("NK1.3", "0", "1") >>
 @@ "PV1" :> << Node("PV1.1", "0", "1"), Node("PV1.2", "1", "1") >>
 @@ "OBX" :> << Node("OBX.1", "0", "1"), Node("OBX.2", "0", "1"),
                Node("OBX.3", "1", "1"), Node("OBX.4", "0", "1"),
                Node("OBX.5", "0", "unbounded") >>
 @@ "NTE" :> << Node("NTE.1", "0", "1"), Node("NTE.2", "0", "1"),
                Node("NTE.3", "0", "unbounded") >>
 @@ "MSA" :> << Node("MSA.1", "1", "1"), Node("MSA.2", "1", "1") >>
 @@ "PR1" :> << Node("PR1.1", "1", "1") >>

\* An attributeGroup <ref>.ATTRIBUTES: the fixed Type and Table (None when the
\* xsd:attribute is absent or has no fixed value)
Attr(type, table) == [Type |-> type, Table |-> table]

\* fields.xsd
fieldRoot ==
    "MSH.1" :> Attr("ST", None)   @@ "MSH.2" :> Attr("ST", None)
 @@ "MSH.3" :> Attr("HD", None)   @@ "MSH.4" :> Attr("HD", None)
 @@ "MSH.5" :> Attr("HD", None)   @@ "MSH.6" :> Attr("HD", None)
 @@ "MSH.7" :> Attr("TS", None)   @@ "MSH.8" :> Attr("ST", None)
 @@ "MSH.9" :> Attr("CM_MSG", None) @@ "MSH.10" :> Attr("ST", None)
 @@ "MSH.11" :> Attr("PT", None)  @@ "MSH.12" :> Attr("VID", None)
 @@ "EVN.1" :> Attr("ID", "HL70003") @@ "EVN.2" :> Attr("TS", None)
 @@ "PID.1" :> Attr("SI", None)   @@ "PID.2" :> Attr("CX", None)
 @@ "PID.3" :> Attr("CX", None)   @@ "PID.4" :> Attr("CX", None)
 @@ "PID.5" :> Attr("XPN", None)  @@ "PID.6" :> Attr("XPN", None)
 @@ "PID.7" :> Attr("DT", None)   @@ "PID.8" :> Attr("IS", "HL70001")
 @@ "PD1.1" :> Attr("IS", "HL70223") @@ "PD1.2" :> Attr(None, None)
 @@ "NK1.1" :> Attr("SI", None)   @@ "NK1.2" :> Attr("XPN", None)
 @@ "NK1.3" :> Attr("CE", "HL70063")
 @@ "PV1.1" :> Attr("SI", None)   @@ "PV1.2" :> Attr("IS", "HL70004")
 @@ "OBX.1" :> Attr("SI", None)   @@ "OBX.2" :> Attr("ID", "HL70125")
 @@ "OBX.3" :> Attr("CWE", None)  @@ "OBX.4" :> Attr("ST", None)
 @@ "OBX.5" :> Attr("varies", None)
 @@ "NTE.1" :> Attr("SI", None)   @@ "NTE.2" :> Attr("ID", "HL70105")
 @@ "NTE.3" :> Attr("FT", None)
 @@ "MSA.1" :> Attr("ID", "HL70008") @@ "MSA.2" :> Attr("ST", None)
 @@ "PR1.1" :> Attr("SI", None)

\* datatypes.xsd : the complexTypes that have an xsd:sequence
dataTypeSequences ==
    "HD" :> << CNode("HD.1", "0"), CNode("HD.2", "0"), CNode("HD.3", "0") >>
 @@ "TS" :> << CNode("TS.1", "0"), CNode("TS.2", "0") >>
 @@ "CM_MSG" :> << CNode("CM_MSG.1", "0"), CNode("CM_MSG.2", "0"),
                   CNode("CM_MSG.3", "0") >>
 @@ "PT" :> << CNode("PT.1", "0"), CNode("PT.2", "0") >>
 @@ "VID" :> << CNode("VID.1", "0"), CNode("VID.2", "0") >>
 @@ "CX" :> << CNode("CX.1", "1"), CNode("CX.2", "0"), CNode("CX.3", "0"),
               CNode("CX.4", "0") >>
 @@ "XPN" :> << CNode("XPN.1", "0"), CNode("XPN.2", "0"), CNode("XPN.3", "0") >>
 @@ "FN" :> << CNode("FN.1", "1"), CNode("FN.2", "0") >>
 @@ "CE" :> << CNode("CE.1", "0"), CNode("CE.2", "0"), CNode("CE.3", "0"),
               CNode("CE.4", "0"), CNode("CE.5", "0"), CNode("CE.6", "0") >>
 @@ "CWE" :> << CNode("CWE.1", "0"), CNode("CWE.2", "0"), CNode("CWE.3", "0") >>
 @@ "FT" :> << CNode("escape", "0") >>

\* datatypes.xsd : the attributeGroups of the components
dataTypeAttributes ==
    "HD.1" :> Attr("IS", "HL70300") @@ "HD.2" :> Attr("ST", None)
 @@ "HD.3" :> Attr("ID", "HL70301")
 @@ "TS.1" :> Attr("ST", None)    @@ "TS.2" :> Attr("ST", None)
 @@ "CM_MSG.1" :> Attr("ID", "HL70076") @@ "CM_MSG.2" :> Attr("ID", "HL70003")
 @@ "CM_MSG.3" :> Attr("ID", "HL70354")
 @@ "PT.1" :> Attr("ID", "HL70103") @@ "PT.2" :> Attr("ID", "HL70207")
 @@ "VID.1" :> Attr("ID", "HL70104") @@ "VID.2" :> Attr("CE", None)
 @@ "CX.1" :> Attr("ST", None)    @@ "CX.2" :> Attr("ST", None)
 @@ "CX.3" :> Attr("ID", "HL70061") @@ "CX.4" :> Attr("HD", None)
 @@ "XPN.1" :> Attr("FN", None)   @@ "XPN.2" :> Attr("ST", None)
 @@ "XPN.3" :> Attr(None, None)
 @@ "FN.1" :> Attr("ST", None)    @@ "FN.2" :> Attr("ST", None)
 @@ "CWE.1" :> Attr("FN", None)   @@ "CWE.2" :> Attr("ST", None)
 @@ "CWE.3" :> Attr("IS", "HL70396")
 @@ "CE.1" :> Attr("ST", None)    @@ "CE.2" :> Attr("ST", None)
 @@ "CE.3" :> Attr("IS", "HL70396") @@ "CE.4" :> Attr("ST", None)
 @@ "CE.5" :> Attr("ST", None)    @@ "CE.6" :> Attr("IS", "HL70396")

\* hl7Table0354.csv as loaded: message type -> trigger -> message structure
hl7messageStructures ==
    "ADT" :> ("A01" :> "ADT_A01" @@ "A04" :> "ADT_A01" @@ "A08" :> "ADT_A01")
 @@ "ORU" :> ("R01" :> "ORU_R01")
 @@ "ACK" :> ("A01" :> "ACK")

\* hl7Tables.csv as loaded: table -> its type and codes
hl7Tables ==
    "HL70001" :> [type |-> "User", codes |-> << "F", "M", "U" >>]
 @@ "HL70004" :> [type |-> "User", codes |-> << "I", "O", "E" >>]
 @@ "HL70125" :> [type |-> "HL7", codes |-> << "ST", "NM", "FT", "TX", "CE" >>]
 @@ "HL70396" :> [type |-> "HL7", codes |-> << "LN", "L" >>]

\* hl7Fields.csv as loaded: field code -> maximum length
fieldLengths ==
    "PV1-2" :> 1 @@ "PID-8" :> 1 @@ "OBX-4" :> 2 @@ "OBX-5" :> 65356
 @@ "NK1-3" :> 3

\* hl7DataTypes.csv as loaded: datatype -> position -> maximum length.  A row
\* that gives a length makes the loader leave with EX_CONFIG (int[row[1]]
\* raises), so a run that gets as far as a message has no length in it
datatypeLengths == "CE" :> << >> @@ "HD" :> << >>

\* valueSets.csv as loaded: field or component -> coding system -> identifiers
valueSets ==
    "NK1-3" :> ("L" :> << "MTH", "FTH" >>)
 @@ "OBX-3" :> ("LN" :> << "8867-4" >>)
 @@ "PID-3" :> ("M11" :> << "123" >>)
 @@ "PID-3.4" :> ("ISO" :> << "HOSP" >>)

(***************************************************************************)
(* The compiled patterns.  A pattern is evaluated as the set of offsets    *)
(* at which a match starting at one of the offsets in P can end.           *)
(***************************************************************************)
HexDigits == Digits \cup {"A", "B", "C", "D", "E", "F", "a", "b", "c", "d", "e", "f"}

Letters == {"A", "B", "C", "D", "E", "F", "G", "H", "I", "J", "K", "L", "M",
            "N", "O", "P", "Q", "R", "S", "T", "U", "V", "W", "X", "Y", "Z",
            "a", "b", "c", "d", "e", "f", "g", "h", "i", "j", "k", "l", "m",
            "n", "o", "p", "q", "r", "s", "t", "u", "v", "w", "x", "y", "z"}

\* one character of the class cls
In(s, P, cls) == {p + 1 : p \in {q \in P : q < Len(s) /\ Ch(s, q + 1) \in cls}}

\* one character that is not in the class cls
NotIn(s, P, cls) == {p + 1 : p \in {q \in P : q < Len(s) /\ Ch(s, q + 1) \notin cls}}

\* \d
D(s, P) == In(s, P, Digits)

\* X* for a one-character class
RECURSIVE StarIn(_, _, _)
StarIn(s, P, cls) ==
    LET N == In(s, P, cls)
    IN  IF N \subseteq P THEN P ELSE StarIn(s, P \cup N, cls)

\* $ : at the end of the string, or just before a newline that ends it
AtEnd(s, P) ==
    \/ Len(s) \in P
    \/ Len(s) > 0 /\ (Len(s) - 1) \in P /\ Ch(s, Len(s)) = "\n"

\* [12]\d{3}
ReYear(s, P) == D(s, D(s, D(s, In(s, P, {"1", "2"}))))
\* (0[1-9]|1[0-2])
ReMonth(s, P) == In(s, In(s, P, {"0"}), Digits \ {"0"})
                    \cup In(s, In(s, P, {"1"}), {"0", "1", "2"})
\* (0[1-9]|[12]\d|3[01])
ReDay(s, P) == In(s, In(s, P, {"0"}), Digits \ {"0"})
                  \cup D(s, In(s, P, {"1", "2"}))
                  \cup In(s, In(s, P, {"3"}), {"0", "1"})
\* ([01]\d|2[0-4])
ReHour(s, P) == D(s, In(s, P, {"0", "1"}))
                   \cup In(s, In(s, P, {"2"}), {"0", "1", "2", "3", "4"})
\* [0-5]\d
ReSixty(s, P) == D(s, In(s, P, {"0", "1", "2", "3", "4", "5"}))
\* (\.\d{1,4})?
ReFraction(s, P) ==
    P \cup {q \in 0 .. Len(s) : \E p \in In(s, P, {"."}) :
               /\ q - p \in 1 .. 4
               /\ \A i \in (p + 1) .. q : Ch(s, i) \in Digits}
\* ([-+]?(0\d|1[0-3])[0-5]\d)?
ReZoneHours(s, P) ==
    D(s, In(s, P, {"0"})) \cup In(s, In(s, P, {"1"}), {"0", "1", "2", "3"})

ReZone(s, P) == P \cup ReSixty(s, ReZoneHours(s, P \cup In(s, P, {"-", "+"})))
\* ([0-5]\d([0-5]\d(\.\d{1,4})?)?)?
ReSec(s, P) == P \cup ReFraction(s, ReSixty(s, P))

ReMinSec(s, P) == P \cup ReSec(s, ReSixty(s, P))

\* ((0[1-9]|[12]\d|3[01]))? after the month
ReOptDay(s, P) == P \cup ReDay(s, P)
\* ((0[1-9]|1[0-2])(day)?)? after the year
ReOptMonthDay(s, P) == P \cup ReOptDay(s, ReMonth(s, P))

DTpattern(s) == AtEnd(s, ReOptMonthDay(s, ReYear(s, {0})))

\* (hour(minute(second)?)?)? after the day
ReOptTime(s, P) == P \cup ReMinSec(s, ReHour(s, P))
\* (day(hour(minute(second)?)?)?)? after the month
ReOptDayTime(s, P) == P \cup ReOptTime(s, ReDay(s, P))
ReOptMonthDayTime(s, P) == P \cup ReOptDayTime(s, ReMonth(s, P))

DTMpattern(s) == AtEnd(s, ReZone(s, ReOptMonthDayTime(s, ReYear(s, {0}))))

\* (\.\d*)?
ReOptDecimals(s, P) == P \cup StarIn(s, In(s, P, {"."}), Digits)

NMpattern(s) ==
    AtEnd(s, ReOptDecimals(s, StarIn(s, D(s, {0} \cup In(s, {0}, {"-", "+"})), Digits)))

\* (,([01]\d|2[0-4])[0-5]\d)*
RECURSIVE ReMoreTimes(_, _)
ReMoreTimes(s, P) ==
    LET N == ReSixty(s, ReHour(s, In(s, P, {","})))
    IN  IF N \subseteq P THEN P ELSE ReMoreTimes(s, P \cup N)

RI2pattern(s) == AtEnd(s, ReMoreTimes(s, ReSixty(s, ReHour(s, {0}))))

\* \d{1,4}
SIpattern(s) ==
    AtEnd(s, {q \in 1 .. 4 : q <= Len(s) /\ \A i \in 1 .. q : Ch(s, i) \in Digits})

TMpattern(s) == AtEnd(s, ReZone(s, ReMinSec(s, ReHour(s, {0}))))

\* n digits
Ds(s, P, n) ==
    {q \in 0 .. Len(s) : (q - n) \in P /\ \A i \in (q - n + 1) .. q : Ch(s, i) \in Digits}
\* (\d\d)?
ReCountry(s, P) == P \cup Ds(s, P, 2)
\* (\d\d\d)?
ReArea(s, P) == P \cup Ds(s, P, 3)
\* (X\d{4})? and (B\d{4})?
ReTagged(s, P, letter) == P \cup Ds(s, In(s, P, {letter}), 4)
\* .* : the dot matches anything but a newline
ReAny(s, P) ==
    {q \in 0 .. Len(s) : \E p \in P : p <= q /\ \A i \in (p + 1) .. q : Ch(s, i) # "\n"}
\* (C.*)?
ReComment(s, P) == P \cup ReAny(s, In(s, P, {"C"}))

TNpattern(s) ==
    AtEnd(s, ReComment(s, ReTagged(s, ReTagged(s,
                 Ds(s, In(s, Ds(s, ReArea(s, ReCountry(s, {0})), 3), {"-"}), 4),
                 "X"), "B")))

TS2pattern(s) == AtEnd(s, In(s, {0}, {"Y", "L", "D", "M", "H", "S"}))

Hexpattern(s) == AtEnd(s, StarIn(s, {0}, HexDigits))

\* ={0,2}
ReUpToTwoEquals(s, P) == P \cup In(s, P, {"="}) \cup In(s, In(s, P, {"="}), {"="})

Base64pattern(s) ==
    AtEnd(s, ReUpToTwoEquals(s, In(s, {0}, Letters \cup Digits \cup {"+", "/"})))

\* a literal string
Lit(s, P, str) == {p + Len(str) : p \in {q \in P : Slice(s, q, q + Len(str)) = str}}

\* \d+
Number(s, P) == StarIn(s, D(s, P), Digits)

\* charXref / charZref matched at offset i: \\X([0-9A-Fa-f][0-9A-Fa-f])+\\
RECURSIVE ReHexPairs(_, _)
ReHexPairs(s, P) ==
    LET N == In(s, In(s, P, HexDigits), HexDigits)
    IN  IF N \subseteq P THEN P ELSE ReHexPairs(s, P \cup N)

charRefAt(s, i, letter) ==
    Lit(s, ReHexPairs(s, In(s, In(s, Lit(s, {i}, "\\" \o letter), HexDigits), HexDigits)),
        "\\")

\* xmlReplacements matched at offset i: the set of offsets where a match ends
\* [-+]?\d+
Signed(s, P) == Number(s, P \cup In(s, P, {"-", "+"}))

xmlReplacementsAt(s, i) ==
    Lit(s, {i}, "\\H\\") \cup Lit(s, {i}, "\\N\\") \cup Lit(s, {i}, "\\.br\\")
      \cup Lit(s, Number(s, StarIn(s, Lit(s, {i}, "\\.sp"), Whitespace)), "\\")
      \cup Lit(s, Signed(s, StarIn(s, Lit(s, {i}, "\\.in"), Whitespace)), "\\")
      \cup Lit(s, Signed(s, StarIn(s, Lit(s, {i}, "\\.ti"), Whitespace)), "\\")

Max(S) == CHOOSE x \in S : \A y \in S : y <= x
Min(S) == CHOOSE x \in S : \A y \in S : x <= y

\* pattern.search(s): the leftmost match as <<start, end>>, or << >>
\* ends[i] being the offsets where a match that starts at offset i can end
Leftmost(ends) ==
    LET starts == {i \in DOMAIN ends : ends[i] # {}}
    IN  IF starts = {} THEN << >> ELSE << Min(starts), Max(ends[Min(starts)]) >>

SearchCharRef(s, letter) == Leftmost([i \in 0 .. Len(s) |-> charRefAt(s, i, letter)])

\* a search that takes the letter a for a markup token
SearchXmlReplacements_Letter(s) == Leftmost([i \in 0 .. Len(s) |-> Lit(s, {i}, "a")])

SearchXmlReplacements(s) == Leftmost([i \in 0 .. Len(s) |-> xmlReplacementsAt(s, i)])

(***************************************************************************)
(* The output tree (xml.etree.ElementTree)                                 *)
(***************************************************************************)
Element(tag) ==
    [tag |-> tag, text |-> None, tail |-> None, attrib |-> << >>, children |-> << >>]

CommentTag == "<!---->"

Comment(text) ==
    [tag |-> CommentTag, text |-> text, tail |-> None, attrib |-> << >>,
     children |-> << >>]

AppendChild(e, child) == [e EXCEPT !.children = @ \o << child >>]

\* element.find(tag): the first child with that tag, as an optional
Find(e, tag) ==
    LET hits == {i \in DOMAIN e.children : e.children[i].tag = tag}
    IN  IF hits = {} THEN << >> ELSE << e.children[Min(hits)] >>

\* x in element: Python compares x with each child of the element
InElement(x, e) == \E i \in DOMAIN e.children : e.children[i] = x

(***************************************************************************)
(* fixElement                                                              *)
(***************************************************************************)
\* lines 617-619: one numeric reference per pair of hex digits
\* one reference for all the digits of the token
repChars_OneRef(chars) == "&#x" \o chars \o ";"

RECURSIVE repChars(_)
repChars(chars) ==
    IF Len(chars) = 0 THEN ""
    ELSE "&#x" \o Slice(chars, 0, 2) \o ";" \o repChars(SliceFrom(chars, 2))

\* lines 615-626: one of the two while loops; charRef is the match found by
\* the loop's condition
RECURSIVE ReplaceCharRefs(_, _)
ReplaceCharRef(elementText, letter, charRef) ==
    IF charRef = << >> THEN elementText
    ELSE ReplaceCharRefs(Slice(elementText, 0, charRef[1])
                            \o repChars(Slice(elementText, charRef[1] + 2, charRef[2] - 1))
                            \o SliceFrom(elementText, charRef[2]), letter)

ReplaceCharRefs(elementText, letter) ==
    ReplaceCharRef(elementText, letter, SearchCharRef(elementText, letter))

\* an escape element that keeps the token's backslashes
EscapeElement_Whole(group, tail) ==
    [tag |-> "escape", text |-> None, tail |-> tail,
     attrib |-> ("V" :> group), children |-> << >>]

EscapeElement(group, tail) ==
    [tag |-> "escape", text |-> None, tail |-> tail,
     attrib |-> ("V" :> Slice(group, 1, Len(group) - 1)), children |-> << >>]

\* lines 644-660: the children appended for the escapes of escapeElementTail;
\* found is the match of line 644 or 655
RECURSIVE MoreEscapes(_, _)
NextEscape(thisElement, escapeElementTail, found) ==
    IF found = << >> THEN thisElement
    ELSE MoreEscapes(
             AppendChild([thisElement EXCEPT !.children[Len(thisElement.children)].tail =
                             Slice(escapeElementTail, 0, found[1])],
                         EscapeElement(Slice(escapeElementTail, found[1], found[2]),
                                       SliceFrom(escapeElementTail, found[2]))),
             SliceFrom(escapeElementTail, found[2]))

MoreEscapes(thisElement, escapeElementTail) ==
    NextEscape(thisElement, escapeElementTail, SearchXmlReplacements(escapeElementTail))

\* lines 628-643: found is the match of line 628
FirstEscape(thisElement, elementText, found) ==
    IF found = << >> THEN [thisElement EXCEPT !.text = elementText]
    ELSE MoreEscapes(
             AppendChild([thisElement EXCEPT !.text = Slice(elementText, 0, found[1])],
                         EscapeElement(Slice(elementText, found[1], found[2]),
                                       SliceFrom(elementText, found[2]))),
             SliceFrom(elementText, found[2]))

Escapes(thisElement, elementText) ==
    FirstEscape(thisElement, elementText, SearchXmlReplacements(elementText))

\* lines 613-661
EscapeRewriter(thisElement, elementText) ==
    Escapes(thisElement, ReplaceCharRefs(ReplaceCharRefs(elementText, "X"), "Z"))

\* The result of fixElement: the element as it leaves it, and the returned text
Fixed(e, comment) == [elem |-> e, comment |-> comment]

\* parentSequence is 0 where the caller passes None; parentXML is an optional
fixElement(thisElement, textType, parentType, parentSequence, parentXML) ==
    LET elementText == thisElement.text
        ok == Fixed(thisElement, None)
        bad(msg) == Fixed(thisElement, msg)
        quoted == "\"" \o elementText \o "\""
    IN
    IF elementText = "\"\"" THEN ok
    ELSE IF elementText = "" THEN ok
    ELSE IF textType = "DT" THEN
        IF ~DTpattern(elementText) THEN bad("Illegally formated date " \o quoted) ELSE ok
    ELSE IF textType = "DTM" THEN
        IF ~DTMpattern(elementText) THEN bad("Illegally formatted date/time " \o quoted) ELSE ok
    ELSE IF parentType = "ED" /\ parentSequence = 4 THEN
        IF elementText \notin {"Hex", "Base64"}
        THEN bad("Illegal Encapsulated Data encoding " \o quoted) ELSE ok
    ELSE IF parentType = "ED" /\ parentSequence = 5 THEN
        IF parentXML = << >> THEN ok
        ELSE LET ED4 == Find(parentXML[1], "ED.4")
             IN  IF ED4 = << >> THEN ok
                 ELSE IF ED4[1].text = None THEN ok
                 ELSE IF ED4[1].text = "Hex" THEN
                     IF (Len(elementText) % 2) # 0 \/ ~Hexpattern(elementText)
                     THEN bad("Illegally formated Hex data") ELSE ok
                 ELSE IF (Len(elementText) % 4) # 0 \/ ~Base64pattern(elementText)
                     THEN bad("Illegally formated Base64 encoded data") ELSE ok
    ELSE IF textType = "NM" THEN
        IF ~NMpattern(elementText) THEN bad("Illegally formatted number " \o quoted) ELSE ok
    ELSE IF parentType = "RI" /\ parentSequence = 2 THEN
        IF ~RI2pattern(elementText)
        THEN bad("Illegally formatted time interval " \o quoted) ELSE ok
    ELSE IF textType = "SI" THEN
        IF ~SIpattern(elementText)
        THEN bad("Illegally formatted sequence identifier " \o quoted) ELSE ok
    ELSE IF textType = "SN.1" THEN
        IF elementText \notin {"<", ">", "=", "<=", ">=", "<>"}
        THEN bad("Illegally formatted numeric comparitor " \o quoted) ELSE ok
    ELSE IF parentType = "SN" /\ parentSequence = 3 THEN
        IF Len(elementText) > 1 \/ elementText \notin {"+", "-", "/", ".", ":"}
        THEN bad("Illegally formatted numeric separator/suffix " \o quoted) ELSE ok
    ELSE IF textType = "TM" THEN
        IF ~TMpattern(elementText) THEN bad("Illegally formatted time " \o quoted) ELSE ok
    ELSE IF textType = "TN" THEN
        IF ~TNpattern(elementText)
        THEN bad("Illegally formatted telephone number \"{elementText}\"") ELSE ok
    ELSE IF parentType = "TS" /\ parentSequence = 1 THEN
        IF ~DTMpattern(elementText) THEN bad("Illegally formatted date/time " \o quoted) ELSE ok
    ELSE IF parentType = "TS" /\ parentSequence = 2 THEN
        IF ~TS2pattern(elementText)
        THEN bad("Illegally formatted time degree of precission " \o quoted) ELSE ok
    ELSE IF parentType = "XTN" /\ parentSequence = 1 THEN
        IF ~TNpattern(elementText)
        THEN bad("Illegally formatted telephone number \"{elementText}\"") ELSE ok
    ELSE IF textType \notin {"TX", "FT", "CF"} THEN ok
    ELSE Fixed(EscapeRewriter(thisElement, elementText), None)

(***************************************************************************)
(* The state of the run                                                    *)
(***************************************************************************)
VARIABLES
    pc,             \* where the main program is
    messageFile,    \* the message's file name, "-" for standard input
    fileLines,      \* the lines of the input
    reportFile,     \* None, "stdout" or the name of the open report file
    files,          \* the files that the run has created: name -> lines written
    stdout,         \* the lines printed on standard output
    exitCode,       \* the exit status, None while the run goes on
    exception,      \* the exception that ended the run, None if none
    Segments, segmentNo,
    fieldSep, repSep, compSep, subCompSep,
    msgStruct,
    stack,          \* the activations of validateXML, the innermost last
    hl7XML          \* what the top-level validateXML returned, as an optional

vars == << pc, messageFile, fileLines, reportFile, files, stdout, exitCode,
           exception, Segments, segmentNo, fieldSep, repSep, compSep,
           subCompSep, msgStruct, stack, hl7XML >>

(***************************************************************************)
(* validateXML, lines 232-507: the decomposition of a matched segment.     *)
(* The loops are recursions over the loop index; the record st carries     *)
(* what outlives an iteration: the lines printed (out), the exception or   *)
(* exit that ended the function (err, code), and the function's locals     *)
(* that an iteration may read before it assigns them (k, l, componentXML,  *)
(* fieldMin), each with a flag telling whether it is bound yet.            *)
(***************************************************************************)
NewLocals ==
    [out |-> << >>, err |-> None, code |-> 0,
     kBound |-> FALSE, k |-> 0,
     lBound |-> FALSE, l |-> 0,
     cxBound |-> FALSE, componentXML |-> Element(""),
     fieldMinBound |-> FALSE, fieldMin |-> << >>]

\* print(comment, file=reportFile)
Report(st, comment) ==
    [st EXCEPT !.out = @ \o << [to |-> "reportFile", text |-> comment] >>]

\* print(comment, reportFile): both arguments are printed on standard output
PrintBoth(st, comment) ==
    [st EXCEPT !.out = @ \o << [to |-> "stdout", text |-> comment \o " <reportFile>"] >>]

Raise(st, exc) == [st EXCEPT !.err = exc]

Exit(st, code) == [st EXCEPT !.err = "SystemExit", !.code = code]

\* int(text) inside try/except: the number as an optional, << >> for None
RECURSIVE DecimalValue(_, _)
DecimalValue(text, acc) ==
    IF Len(text) = 0 THEN acc
    ELSE DecimalValue(SliceFrom(text, 1),
             10 * acc + (CHOOSE d \in 0 .. 9 : ToString(d) = Ch(text, 1)))

IntOrNone(text) ==
    LET body == IF Len(text) > 0 /\ Ch(text, 1) \in {"-", "+"}
                THEN SliceFrom(text, 1) ELSE text
        digits == Len(body) > 0 /\ \A i \in 1 .. Len(body) : Ch(body, i) \in Digits
    IN  IF ~digits THEN << >>
        ELSE IF Ch(text, 1) = "-" THEN << 0 - DecimalValue(body, 0) >>
        ELSE << DecimalValue(body, 0) >>

\* line 257, fieldMin = int(fieldMin) inside try/except: the argument is the
\* local fieldMin itself, which is unbound or None, so int() raises
IntOfLocal(bound, value) == IF bound /\ value # << >> THEN value ELSE << >>

\* complexType[@name=type]/xsd:sequence in datatypes.xsd, as an optional
dataTypeRootFind(type) ==
    IF type \in DOMAIN dataTypeSequences THEN << dataTypeSequences[type] >> ELSE << >>

\* The fixed value of attribute `which` of <ref>.ATTRIBUTES, or None
FixedAttribute(root, ref, which) ==
    IF ref \in DOMAIN root THEN root[ref][which] ELSE None

InList(x, list) == \E n \in DOMAIN list : list[n] = x

\* list[index] of Python: a negative index counts from the end; << >> stands
\* for IndexError
PyIndex(list, index) ==
    LET at == IF index < 0 THEN index + Len(list) ELSE index
    IN  IF at < 0 \/ at >= Len(list) THEN << >> ELSE << list[at + 1] >>

Where(seg) == " in Segment " \o seg \o " at segment " \o ToString(segmentNo + 1)

\* The steps below act on a record r of the locals (st), the element being
\* filled (e) and its enclosing element as an optional (parent); a step does
\* nothing once an exception is raised

\* if cond: print(comment, file=reportFile); e.append(et.Comment(comment))
Noted(r, cond, comment) ==
    IF r.st.err # None \/ ~cond THEN r
    ELSE [r EXCEPT !.st = Report(@, comment), !.e = AppendChild(@, Comment(comment))]

\* if cond: print(comment, reportFile); e.append(et.Comment(comment))
Printed(r, cond, comment) ==
    IF r.st.err # None \/ ~cond THEN r
    ELSE [r EXCEPT !.st = PrintBoth(@, comment), !.e = AppendChild(@, Comment(comment))]

\* if cond: an exception is raised
Raised(r, cond, exc) ==
    IF r.st.err # None \/ ~cond THEN r ELSE [r EXCEPT !.st = Raise(@, exc)]

\* comment = fixElement(...) has returned `fixed`; if comment is not None:
\* comment += suffix; print(comment, file=reportFile); e.append(...)
Fixing(r, fixed, suffix) ==
    IF fixed.comment = None THEN [r EXCEPT !.e = fixed.elem]
    ELSE [r EXCEPT !.st = Report(@, fixed.comment \o suffix),
                   !.e = AppendChild(fixed.elem, Comment(fixed.comment \o suffix))]

\* e.text = text; comment = fixElement(e, textType, parentType, parentSequence,
\* parent); and the three lines that follow each such call
Fix(r, text, textType, parentType, parentSequence, suffix) ==
    IF r.st.err # None THEN r
    ELSE Fixing(r, fixElement([r.e EXCEPT !.text = text], textType, parentType,
                              parentSequence, r.parent), suffix)

\* lines 446, and 414 where attach says that the sub-component is appended
SubComponentDone(done, attach) ==
    [st |-> done.st,
     cx |-> IF attach /\ done.st.err = None THEN AppendChild(done.parent[1], done.e)
            ELSE done.parent[1]]

\* lines 381-446: one iteration of the loop over the sub-components; c is the
\* record of the enclosing iterations' values, r.cx the componentXML being built
SubComponentBody(r, c, l, subComponents) ==
    LET subComponent == subComponents[l + 1]
        subCompCode == c.componentCode \o "." \o ToString(l + 1)
        defined == /\ l < Len(c.componentBits)
                   /\ "ref" \in DOMAIN c.componentBits[l + 1].attrib
                   /\ "minOccurs" \in DOMAIN c.componentBits[l + 1].attrib
        subCompRef == IF defined THEN c.componentBits[l + 1].attrib.ref ELSE None
        subCompMin == IF defined THEN IntOrNone(c.componentBits[l + 1].attrib.minOccurs)
                      ELSE << >>
        subCompType == IF defined THEN FixedAttribute(dataTypeAttributes, subCompRef, "Type")
                       ELSE "ST"
        subCompTable == IF defined THEN FixedAttribute(dataTypeAttributes, subCompRef, "Table")
                        ELSE None
        tailOf == Where(c.seg) \o ", field [" \o c.fieldCode \o "], repetition "
                     \o ToString(c.j + 1) \o ", subcomponent [" \o subCompCode \o "]"
        start == [st |-> [r.st EXCEPT !.lBound = TRUE, !.l = l],
                  e |-> Element(IF defined THEN subCompRef ELSE subCompCode),
                  parent |-> << r.cx >>]
        \* lines 431, 436 and 441
        tableChecked == subCompTable # None /\ subCompTable \in DOMAIN hl7Tables
        tooLong == /\ subCompType \in DOMAIN datatypeLengths
                   /\ l \in DOMAIN datatypeLengths[subCompType]
                   /\ Len(subComponent) > datatypeLengths[subCompType][l]
        notInSet == /\ l \in {2, 5}
                    /\ c.componentCode \in DOMAIN valueSets
                    /\ subComponent \in DOMAIN valueSets[c.componentCode]
                    /\ ~InList(subComponents[l - 1], valueSets[c.componentCode][subComponent])
        \* lines 416-424
        r1 == Noted(start, subCompRef # None /\ subCompType = None,
                    "Undefined subcomponent" \o tailOf)
        r2 == Noted(r1, subCompRef = None,
                    "Unexpected subcomponent" \o tailOf \o " - " \o subComponent)
        \* lines 425-430
        r3 == Fix(r2, subComponent, subCompType, c.componentType, l + 1,
                  Where(c.seg) \o " in field [" \o c.fieldCode \o "], repetition "
                     \o ToString(c.j + 1) \o ", subcomponent [" \o subCompCode \o "]")
        \* lines 431-435: the codes are those of hl7Tables[fieldTable]
        r4 == Raised(r3, tableChecked /\ c.fieldTable \notin DOMAIN hl7Tables, "KeyError")
        r5 == Printed(r4, tableChecked /\ ~InList(subComponent, hl7Tables[c.fieldTable].codes),
                      "Illegal value \"" \o subComponent \o "\" - not in "
                         \o hl7Tables[subCompTable].type \o " table " \o subCompTable
                         \o tailOf)
        \* lines 436-440
        r6 == Noted(r5, tooLong,
                    "Illegally long subcomponent - \"" \o subComponent \o "\""
                       \o Where(c.seg) \o " in field [" \o c.fieldCode
                       \o "], repetition " \o ToString(c.j + 1)
                       \o ", subComponent [" \o subCompCode \o "]")
        \* lines 441-445
        r7 == Noted(r6, notInSet,
                    "Identifier \"" \o subComponents[l - 1] \o "\" not in coding system \""
                       \o subComponent \o "\"" \o Where(c.seg) \o ", field ["
                       \o c.fieldCode \o "], repetition " \o ToString(c.j + 1)
                       \o ", component[" \o c.componentCode \o "]")
    IN
    IF subComponent = "\"\"" THEN SubComponentDone(start, FALSE)
    ELSE IF subComponent = "" THEN
        \* lines 409-415
        IF subCompMin # << >> /\ subCompMin[1] > 0
        THEN SubComponentDone(
                 Noted(start, TRUE, "Missing required subcomponent [" \o subCompCode
                                       \o "]" \o tailOf), TRUE)
        ELSE SubComponentDone(start, FALSE)
    ELSE SubComponentDone(r7, TRUE)

RECURSIVE SubComponentLoop(_, _, _, _)
SubComponentLoop(r, c, l, subComponents) ==
    IF r.st.err # None \/ l >= Len(subComponents) THEN r
    ELSE SubComponentLoop(SubComponentBody(r, c, l, subComponents), c, l + 1,
                          subComponents)

\* The component of an iteration is done: componentXML is the element of
\* `done`; lines 362 and 375 where attach says that fieldXML takes it
ComponentDone(done, attach) ==
    [st |-> [done.st EXCEPT !.cxBound = TRUE, !.componentXML = done.e],
     fx |-> IF attach /\ done.st.err = None THEN AppendChild(done.parent[1], done.e)
            ELSE done.parent[1]]

\* lines 380-446 have filled componentXML: `loop` is what the loop has left
SubComponentsDone(r, loop) ==
    [st |-> [loop.st EXCEPT !.cxBound = TRUE, !.componentXML = loop.cx], fx |-> r.fx]

\* lines 329-478: one iteration of the loop over the components; c is the
\* record of the enclosing iterations' values, r.fx the fieldXML being built
ComponentBody(r, c, k, Components) ==
    LET component == Components[k + 1]
        componentCode == c.seg \o "-" \o ToString(c.i + 1) \o "." \o ToString(k + 1)
        defined == /\ k < Len(c.dataTypeBits)
                   /\ "ref" \in DOMAIN c.dataTypeBits[k + 1].attrib
                   /\ "minOccurs" \in DOMAIN c.dataTypeBits[k + 1].attrib
        componentRef == IF defined THEN c.dataTypeBits[k + 1].attrib.ref ELSE None
        componentMin == IF defined THEN IntOrNone(c.dataTypeBits[k + 1].attrib.minOccurs)
                        ELSE << >>
        componentType == IF defined
                         THEN FixedAttribute(dataTypeAttributes, componentRef, "Type")
                         ELSE "ST"
        componentTable == IF defined
                          THEN FixedAttribute(dataTypeAttributes, componentRef, "Table")
                          ELSE None
        st == [r.st EXCEPT !.kBound = TRUE, !.k = k]
        \* lines 340 and 354, and line 378 which makes the same element anew
        start == [st |-> st, e |-> Element(IF defined THEN componentRef ELSE componentCode),
                  parent |-> << r.fx >>]
        inField == Where(c.seg) \o " in field [" \o c.fieldCode \o "], repetition "
                      \o ToString(k + 1) \o ", component [" \o componentCode \o "]"
        \* lines 470-472: the comment goes to fieldXML
        unexpected == "Unexpected component" \o Where(c.seg) \o ", field " \o c.fieldCode
                         \o ", repetition " \o ToString(k + 1) \o " - " \o component
        \* lines 377 and 379
        componentBits == dataTypeRootFind(componentType)
        \* lines 454, 459 and 464
        tableChecked == componentTable # None /\ componentTable \in DOMAIN hl7Tables
        tooLong == /\ componentType \in DOMAIN datatypeLengths
                   /\ k \in DOMAIN datatypeLengths[componentType]
                   /\ Len(component) > datatypeLengths[componentType][k]
        valueSetChecked == /\ k \in {2, 5}
                           /\ c.fieldCode \in DOMAIN valueSets
                           /\ component \in DOMAIN valueSets[c.fieldCode]
        \* line 465: the value set is looked up under componentCode
        keyError == valueSetChecked
                       /\ (componentCode \notin DOMAIN valueSets
                           \/ component \notin DOMAIN valueSets[componentCode])
        notInSet == valueSetChecked
                       /\ ~InList(Components[k - 1], valueSets[componentCode][component])
        \* line 466: the message reads Components[l - 2]
        named == PyIndex(Components, st.l - 2)
        \* lines 448-453
        p1 == Fix(start, component, componentType, c.fieldType, c.i + 1, inField)
        \* lines 454-458: the codes are those of hl7Tables[fieldTable]
        p2 == Raised(p1, tableChecked /\ c.fieldTable \notin DOMAIN hl7Tables, "KeyError")
        p3 == Printed(p2, tableChecked /\ ~InList(component, hl7Tables[c.fieldTable].codes),
                      "Illegal value \"" \o component \o "\" - not in "
                         \o hl7Tables[componentTable].type \o " table " \o componentTable
                         \o Where(c.seg) \o ", field [" \o c.fieldCode \o "], repetition "
                         \o ToString(k + 1) \o ", component [" \o componentCode \o "]")
        \* lines 459-463
        p4 == Noted(p3, tooLong,
                    "Illegally long component - \"" \o component \o "\""
                       \o Where(c.seg) \o " in field [" \o c.fieldCode
                       \o "], repetition " \o ToString(c.j + 1)
                       \o ", component [" \o componentCode \o "]")
        \* lines 464-468
        p5 == Raised(p4, keyError, "KeyError")
        p6 == Raised(p5, notInSet /\ ~st.lBound, "UnboundLocalError")
        p7 == Raised(p6, notInSet /\ named = << >>, "IndexError")
        p8 == Noted(p7, notInSet,
                    "Identifier \"" \o named[1] \o "\" not in coding system \""
                       \o component \o "\"" \o Where(c.seg) \o ", field ["
                       \o c.fieldCode \o "], repetition " \o ToString(c.j + 1))
    IN
    IF component = "\"\"" THEN [st |-> st, fx |-> r.fx]
    ELSE IF component = "" THEN
        \* lines 357-363
        IF componentMin # << >> /\ componentMin[1] > 0
        THEN ComponentDone(
                 Noted(start, TRUE, "Missing required component [" \o componentCode \o "]"
                                       \o Where(c.seg) \o ", field [" \o c.fieldCode
                                       \o "], repeat " \o ToString(c.j + 1)), TRUE)
        ELSE ComponentDone(start, FALSE)
    ELSE IF componentRef = None THEN
        \* lines 469-478
        ComponentDone(
            Fix([start EXCEPT !.st = Report(@, unexpected),
                              !.parent = << AppendChild(r.fx, Comment(unexpected)) >>],
                component, componentType, c.fieldType, c.i + 1, inField), FALSE)
    ELSE IF componentType = None THEN
        \* lines 365-376
        ComponentDone(
            Fix(Noted(start, TRUE,
                      "Undefined component" \o Where(c.seg) \o ", field [" \o c.fieldCode
                         \o "], repetition " \o ToString(c.j + 1)
                         \o ", component [" \o componentCode \o "]"),
                component, "ST", c.fieldType, k + 1,
                Where(c.seg) \o " in field [" \o c.fieldCode \o "], repetition "
                   \o ToString(c.j + 1) \o ", component [" \o componentCode \o "]"), TRUE)
    ELSE IF componentBits # << >> /\ subCompSep # "" /\ componentCode # "OBX.3.1" THEN
        \* lines 380-446
        SubComponentsDone(r,
            SubComponentLoop([st |-> st, cx |-> start.e],
                [seg |-> c.seg, j |-> c.j, fieldCode |-> c.fieldCode,
                 fieldTable |-> c.fieldTable, componentCode |-> componentCode,
                 componentType |-> componentType, componentBits |-> componentBits[1]],
                0, Split(component, subCompSep)))
    ELSE ComponentDone(p8, FALSE)

RECURSIVE ComponentLoop(_, _, _, _)
ComponentLoop(r, c, k, Components) ==
    IF r.st.err # None \/ k >= Len(Components) THEN r
    ELSE ComponentLoop(ComponentBody(r, c, k, Components), c, k + 1, Components)

\* The repetition is done: `done` holds the locals and fieldXML; line 317 or
\* 507 where attach says that segElement takes fieldXML once more
RepetitionDone(r, done, fieldType, attach) ==
    [st |-> done.st, fx |-> done.e, fieldType |-> fieldType,
     appended |-> IF attach /\ done.st.err = None THEN r.appended + 1 ELSE r.appended]

\* line 479, after the loop over the components: fieldXML.append(componentXML)
ComponentsDone(loop) ==
    IF loop.st.err # None THEN [st |-> loop.st, e |-> loop.fx]
    ELSE IF ~loop.st.cxBound
        THEN [st |-> Raise(loop.st, "UnboundLocalError"), e |-> loop.fx]
    ELSE [st |-> loop.st, e |-> AppendChild(loop.fx, loop.st.componentXML)]

\* lines 482-486, fixElement having returned `fixed`: line 484 reads k, line
\* 485 prints and line 486 calls et.COmment
FieldFixing(r, fixed, suffix) ==
    IF fixed.comment = None THEN [r EXCEPT !.e = fixed.elem]
    ELSE IF ~r.st.kBound
        THEN [r EXCEPT !.st = Raise(@, "UnboundLocalError"), !.e = fixed.elem]
    ELSE [r EXCEPT !.st = Raise(Report(@, fixed.comment \o suffix), "AttributeError"),
                   !.e = fixed.elem]

\* lines 481-486
FieldFix(r, text, textType, suffix) ==
    IF r.st.err # None THEN r
    ELSE FieldFixing(r, fixElement([r.e EXCEPT !.text = text], textType, None, 0, << >>),
                     suffix)

\* lines 299-507: one iteration of the loop over the repetitions of a field.
\* r carries the locals st, the fieldXML being built (fx), the fieldType (which
\* line 321 or 323 may reassign) and the number of times fieldXML has been
\* appended to segElement (appended)
RepetitionBody(r, c, j, fieldReps, Fields) ==
    LET thisField == fieldReps[j + 1]
        \* lines 302-305
        start == Noted([st |-> r.st, e |-> r.fx, parent |-> << >>],
                       c.fieldMax # << >> /\ c.fieldMax[1] <= j,
                       "Unexpected field repeat [" \o ToString(j + 1) \o "] in segment "
                          \o c.seg \o " at segment " \o ToString(segmentNo + 1)
                          \o " in field [" \o c.fieldCode \o "]")
        \* lines 319-323
        fieldType == IF r.fieldType = "varies"
                     THEN IF c.seg = "OBX" /\ c.fieldRef = "OBX.5" THEN Fields[2]
                          ELSE IF c.seg = "MFE" /\ c.fieldRef = "MFE.4" /\ Len(Fields) > 4
                               THEN Fields[5]
                               ELSE r.fieldType
                     ELSE r.fieldType
        \* lines 324-326
        dataTypeBits == IF fieldType = "FT" THEN << >> ELSE dataTypeRootFind(fieldType)
        \* lines 487 and 492
        illegal == /\ c.fieldTable # None /\ c.fieldTable \in DOMAIN hl7Tables
                   /\ ~InList(thisField, hl7Tables[c.fieldTable].codes)
        tooLong == /\ c.fieldCode \in DOMAIN fieldLengths
                   /\ fieldLengths[c.fieldCode] \notin {999999, 65356}
                   /\ Len(thisField) > fieldLengths[c.fieldCode]
        \* lines 481-486
        f1 == FieldFix(start, thisField, fieldType,
                       Where(c.seg) \o " in field [" \o c.fieldCode \o "], repetition "
                          \o ToString(r.st.k + 1))
        \* lines 487-491: line 489 reads k
        f2 == Raised(f1, illegal /\ ~r.st.kBound, "UnboundLocalError")
        f3 == Printed(f2, illegal,
                      "Illegal value \"" \o thisField \o "\" - not in "
                         \o hl7Tables[c.fieldTable].type \o " table " \o c.fieldTable
                         \o Where(c.seg) \o ", field [" \o c.fieldCode \o "], repetition "
                         \o ToString(r.st.k + 1))
        \* lines 492-496
        f4 == Noted(f3, tooLong,
                    "Illegally long field - \"" \o thisField \o "\"" \o Where(c.seg)
                       \o " in field [" \o c.fieldCode \o "], repetition "
                       \o ToString(j + 1))
    IN
    IF thisField = "\"\"" THEN r
    ELSE IF c.fieldRef = None THEN
        \* lines 497-507
        RepetitionDone(r,
            Fix(Noted(start, TRUE,
                      "Unexpected field in Segment " \o c.seg \o " at "
                         \o ToString(segmentNo + 1) \o ", field " \o c.fieldCode
                         \o " - " \o thisField),
                thisField, r.fieldType, None, 0,
                Where(c.seg) \o " in field [" \o c.fieldCode \o "]"),
            r.fieldType, TRUE)
    ELSE IF r.fieldType = None THEN
        \* line 308: the format specification "%d" of {segmentNo:%d} is invalid
        RepetitionDone(r, Raised(start, TRUE, "ValueError"), r.fieldType, FALSE)
    ELSE IF dataTypeBits # << >> THEN
        \* lines 328-479
        RepetitionDone(r,
            ComponentsDone(
                ComponentLoop([st |-> start.st, fx |-> start.e],
                    [seg |-> c.seg, i |-> c.i, j |-> j, fieldCode |-> c.fieldCode,
                     fieldTable |-> c.fieldTable, fieldType |-> fieldType,
                     dataTypeBits |-> dataTypeBits[1]],
                    0, Split(thisField, compSep))),
            fieldType, TRUE)
    ELSE RepetitionDone(r, f4, fieldType, TRUE)

RECURSIVE RepetitionLoop(_, _, _, _, _)
RepetitionLoop(r, c, j, fieldReps, Fields) ==
    IF r.st.err # None \/ j >= Len(fieldReps) THEN r
    ELSE RepetitionLoop(RepetitionBody(r, c, j, fieldReps, Fields), c, j + 1,
                        fieldReps, Fields)

\* n references to the one fieldXML object
Copies(n, e) == [x \in 1 .. n |-> e]

\* The field is done: segElement holds fieldXML as many times as lines 317 and
\* 507 have appended it, each a reference to the one element
FieldDone(r, loop) ==
    [st |-> loop.st,
     segElement |-> [r.segElement EXCEPT !.children = @ \o Copies(loop.appended, loop.fx)]]

\* lines 251-507: one iteration of the loop over the fields; r carries the
\* locals st and the segElement being built
FieldBody(r, seg, xmlSeg, i, Fields) ==
    LET field == Fields[i + 1]
        fieldCode == seg \o "-" \o ToString(i + 1)
        defined == /\ i < Len(xmlSeg)
                   /\ "ref" \in DOMAIN xmlSeg[i + 1].attrib
                   /\ "minOccurs" \in DOMAIN xmlSeg[i + 1].attrib
                   /\ "maxOccurs" \in DOMAIN xmlSeg[i + 1].attrib
        fieldRef == IF defined THEN xmlSeg[i + 1].attrib.ref ELSE None
        \* lines 255-259 and 281
        fieldMin == IF defined THEN IntOfLocal(r.st.fieldMinBound, r.st.fieldMin)
                    ELSE << >>
        \* lines 260-267 and 282
        fieldMax == IF defined /\ xmlSeg[i + 1].attrib.maxOccurs # "unbounded"
                    THEN IntOrNone(xmlSeg[i + 1].attrib.maxOccurs) ELSE << >>
        fieldXML == Element(IF defined THEN fieldRef ELSE fieldCode)
        fieldType == IF defined THEN FixedAttribute(fieldRoot, fieldRef, "Type") ELSE "ST"
        fieldTable == IF defined THEN FixedAttribute(fieldRoot, fieldRef, "Table") ELSE None
        st == [r.st EXCEPT !.fieldMinBound = TRUE, !.fieldMin = fieldMin]
    IN
    IF field = "" THEN
        \* lines 286-292
        IF fieldMin # << >> /\ fieldMin[1] > 0
        THEN FieldDone(r,
                 RepetitionDone([appended |-> 0],
                     Noted([st |-> st, e |-> fieldXML, parent |-> << >>], TRUE,
                           "Missing required field [" \o fieldCode \o "]" \o Where(seg)),
                     fieldType, TRUE))
        ELSE [st |-> st, segElement |-> r.segElement]
    ELSE FieldDone(r,
             RepetitionLoop(
                 [st |-> st, fx |-> fieldXML, fieldType |-> fieldType, appended |-> 0],
                 [seg |-> seg, i |-> i, fieldCode |-> fieldCode, fieldRef |-> fieldRef,
                  fieldMax |-> fieldMax, fieldTable |-> fieldTable],
                 0,
                 \* lines 293-298
                 IF seg = "MSH" /\ i = 1 THEN << field >>
                 ELSE IF fieldType = "FT" THEN << field >>
                 ELSE Split(field, repSep),
                 Fields))

RECURSIVE FieldLoop(_, _, _, _, _)
FieldLoop(r, seg, xmlSeg, i, Fields) ==
    IF r.st.err # None \/ i >= Len(Fields) THEN r
    ELSE FieldLoop(FieldBody(r, seg, xmlSeg, i, Fields), seg, xmlSeg, i + 1, Fields)

\* lines 240-507: the segment element of Segments[segmentNo], built with the
\* locals st of the activation
SegmentElement(st) ==
    LET segment == Segments[segmentNo + 1]
        split == Split(segment, fieldSep)
        all == IF split[1] = "MSH" THEN << split[1], fieldSep >> \o Tail(split) ELSE split
        seg == all[1]
    IN  IF seg \notin DOMAIN segmentRoot
        THEN [st |-> Exit(st, EX_CONFIG), segElement |-> Element(Slice(segment, 0, 3))]
        ELSE FieldLoop([st |-> st, segElement |-> Element(Slice(segment, 0, 3))],
                       seg, segmentRoot[seg], 0, Tail(all))

(***************************************************************************)
(* validateXML, lines 144-231 and 508-523: the grammar matcher.  An        *)
(* activation is a record on the stack; `at` is "entry" before line 160    *)
(* and "loop" at the head of the while loop.                               *)
(***************************************************************************)
MaxDepth == 200

Activation(sequenceList, tag, optional, isChoice, depth) ==
    [at |-> "entry", sequenceList |-> sequenceList, tag |-> tag,
     optional |-> optional, isChoice |-> isChoice, depth |-> depth,
     sequenceAt |-> 0, thisElement |-> << >>, tagged |-> FALSE, occurs |-> 0,
     lastSeg |-> None, locals |-> NewLocals]

Top == stack[Len(stack)]
Callers == SubSeq(stack, 1, Len(stack) - 1)
Here == Top.sequenceList[Top.sequenceAt + 1]

\* if not tagged: thisElement = et.Element(tag); tagged = True
Tagged(f) == IF f.tagged THEN f
             ELSE [f EXCEPT !.thisElement = << Element(f.tag) >>, !.tagged = TRUE]

\* the child appended twice
AppendToElement_Twice(f, child) ==
    [Tagged(f) EXCEPT !.thisElement =
        << AppendChild(AppendChild(Tagged(f).thisElement[1], child), child) >>]

AppendToElement(f, child) ==
    [Tagged(f) EXCEPT !.thisElement = << AppendChild(Tagged(f).thisElement[1], child) >>]

\* The lines the events of out add to standard output and to the report file
TextOf(events) == [n \in DOMAIN events |-> events[n].text]

OnStdout(out) ==
    LET there(e) == e.to = "stdout" \/ reportFile = "stdout"
    IN  stdout \o TextOf(SelectSeq(out, there))

InFiles(out) ==
    LET there(e) == e.to = "reportFile"
    IN  IF reportFile = "stdout" \/ reportFile = None THEN files
        ELSE [files EXCEPT ![reportFile] = @ \o TextOf(SelectSeq(out, there))]

\* the outermost activation returning nothing, whatever was matched
Return_Nothing(stk, groupXML, segNo) == [stack |-> << >>, value |-> << >>]

\* lines 199-212 after the call returned groupXML to the activation that is
\* now the innermost of stk, with segNo the value of segmentNo; an activation
\* that returns in turn is popped.  The result is the stack left, and the
\* value returned by the outermost activation once the stack is empty
RECURSIVE Return(_, _, _)
Return(stk, groupXML, segNo) ==
    IF stk = << >> THEN [stack |-> << >>, value |-> groupXML]
    ELSE
    LET f == stk[Len(stk)]
        below == SubSeq(stk, 1, Len(stk) - 1)
        node == f.sequenceList[f.sequenceAt + 1]
        attached == AppendToElement(f, groupXML[1])
    IN  IF groupXML # << >> THEN
            IF segNo < Len(Segments)
            THEN [stack |-> below \o << attached >>, value |-> << >>]
            ELSE Return(below, attached.thisElement, segNo)
        ELSE IF node.attrib.minOccurs = "0"
            THEN [stack |-> below \o << [f EXCEPT !.sequenceAt = @ + 1] >>, value |-> << >>]
        ELSE Return(below, f.thisElement, segNo)

\* The activation `f` returns `value` with segmentNo = segNo
Returning(value, segNo) ==
    LET r == Return(Callers, value, segNo)
    IN  /\ stack' = r.stack
        /\ IF r.stack = << >>
           THEN hl7XML' = r.value /\ pc' = "save"
           ELSE UNCHANGED << hl7XML, pc >>

\* sys.exit(code) after logging
Exiting(code) ==
    /\ pc' = "exit"
    /\ exitCode' = code

\* An exception that nothing catches: the interpreter prints the traceback and
\* leaves with status 1
Crashing(exc) ==
    /\ pc' = "exit"
    /\ exitCode' = 1
    /\ exception' = exc

\* the diagnostic with the segment's index instead of its number
UnexpectedSegment_FromZero(sep) ==
    "Unexpected Segment at " \o ToString(segmentNo) \o sep \o "\""
        \o Segments[segmentNo + 1] \o "\""

UnexpectedSegment(sep) ==
    "Unexpected Segment at " \o ToString(segmentNo + 1) \o sep \o "\""
        \o Segments[segmentNo + 1] \o "\""

\* lines 160-173
validateXML_Entry ==
    /\ pc = "validateXML" /\ Top.at = "entry"
    /\ IF Top.depth > MaxDepth
       THEN LET comment == UnexpectedSegment(" - ")
                out == << [to |-> "reportFile", text |-> comment] >>
            IN  /\ stdout' = OnStdout(out)
                /\ files' = InFiles(out)
                /\ segmentNo' = segmentNo + 1
                /\ Returning(<< AppendChild(Element(Top.tag), Comment(comment)) >>,
                             segmentNo + 1)
       ELSE /\ stack' = Callers \o << [Top EXCEPT !.at = "loop", !.depth = @ + 1] >>
            /\ UNCHANGED << stdout, files, segmentNo, hl7XML, pc >>
    /\ UNCHANGED << messageFile, fileLines, reportFile, exitCode, exception, Segments,
                    fieldSep, repSep, compSep, subCompSep, msgStruct >>

AtLoop == pc = "validateXML" /\ Top.at = "loop"
InList174 == AtLoop /\ Top.sequenceAt < Len(Top.sequenceList)
HasRef == InList174 /\ "ref" \in DOMAIN Here.attrib
Differs == HasRef /\ Here.attrib.ref # Slice(Segments[segmentNo + 1], 0, 3)

\* line 174, the loop condition is false, and line 523
validateXML_LoopExit ==
    /\ AtLoop /\ ~InList174
    /\ Returning(Top.thisElement, segmentNo)
    /\ UNCHANGED << messageFile, fileLines, reportFile, files, stdout, exitCode,
                    exception, Segments, segmentNo, fieldSep, repSep, compSep,
                    subCompSep, msgStruct >>

\* lines 175-178
validateXML_MissingRef ==
    /\ InList174 /\ ~HasRef
    /\ Exiting(EX_CONFIG)
    /\ UNCHANGED << messageFile, fileLines, reportFile, files, stdout, exception,
                    Segments, segmentNo, fieldSep, repSep, compSep, subCompSep,
                    msgStruct, stack, hl7XML >>

\* messageRoot.find of <groupRef>.CONTENT/xsd:sequence, else /xsd:choice
GroupContent(groupRef) ==
    LET name == groupRef \o ".CONTENT"
        messageRoot == messageFiles[msgStruct]
    IN  IF name \in DOMAIN messageRoot THEN << messageRoot[name] >> ELSE << >>

\* lines 181-199: the grammar position is a group.  Line 184 looks for
\* 'minOccurs' in the element, that is among its children
validateXML_Group ==
    /\ Differs /\ Len(Here.attrib.ref) > 3
    /\ LET groupRef == Here.attrib.ref
           groupList == GroupContent(groupRef)
       IN  IF ~InElement("minOccurs", Here) THEN
               Exiting(EX_CONFIG) /\ UNCHANGED << stack, exception >>
           ELSE IF groupList = << >> THEN
               Exiting(EX_CONFIG) /\ UNCHANGED << stack, exception >>
           ELSE /\ stack' = stack \o << Activation(groupList[1].list, groupRef,
                                                   Here.attrib.minOccurs = "0",
                                                   groupList[1].kind = "choice",
                                                   Top.depth) >>
                /\ UNCHANGED << pc, exitCode, exception >>
    /\ UNCHANGED << messageFile, fileLines, reportFile, files, stdout, Segments,
                    segmentNo, fieldSep, repSep, compSep, subCompSep, msgStruct,
                    hl7XML >>

\* lines 213-216: the segment at this grammar position is optional
validateXML_SkipOptional ==
    /\ Differs /\ Len(Here.attrib.ref) <= 3
    /\ Here.attrib.minOccurs = "0"
    /\ stack' = Callers \o << [Top EXCEPT !.sequenceAt = @ + 1] >>
    /\ UNCHANGED << pc, messageFile, fileLines, reportFile, files, stdout, exitCode,
                    exception, Segments, segmentNo, fieldSep, repSep, compSep,
                    subCompSep, msgStruct, hl7XML >>

\* lines 217-231: the segment at this grammar position is required
validateXML_Unexpected ==
    /\ Differs /\ Len(Here.attrib.ref) <= 3
    /\ Here.attrib.minOccurs # "0"
    /\ IF Top.optional
       THEN /\ Returning(Top.thisElement, segmentNo)
            /\ UNCHANGED << stdout, files, segmentNo >>
       ELSE LET comment == UnexpectedSegment(": ")
                out == << [to |-> "reportFile", text |-> comment] >>
                f == AppendToElement(Top, Comment(comment))
            IN  /\ stdout' = OnStdout(out)
                /\ files' = InFiles(out)
                /\ segmentNo' = segmentNo + 1
                /\ IF segmentNo + 1 < Len(Segments)
                   THEN stack' = Callers \o << f >> /\ UNCHANGED << hl7XML, pc >>
                   ELSE Returning(f.thisElement, segmentNo + 1)
    /\ UNCHANGED << messageFile, fileLines, reportFile, exitCode, exception, Segments,
                    fieldSep, repSep, compSep, subCompSep, msgStruct >>

\* the end of the message taken as never reached
NoMoreSegments_Never(segNo) == FALSE

\* line 510: segNo, the cursor after a matched segment, is at the end of the
\* message
NoMoreSegments(segNo) == segNo = Len(Segments)

\* lines 232-523: the segment matches the grammar position
\* lines 233-523, r being what lines 240-507 have made of the segment
Matched(r) ==
       LET seg == Slice(Segments[segmentNo + 1], 0, 3)
           \* lines 234-239
           f1 == Tagged(IF Top.lastSeg = None \/ Top.lastSeg # seg
                        THEN [Top EXCEPT !.lastSeg = seg, !.occurs = 0] ELSE Top)
           \* line 508
           f2 == [AppendToElement(f1, r.segElement) EXCEPT !.locals = r.st]
           \* line 514
           f3 == [f2 EXCEPT !.occurs = @ + 1]
           maxOccurs == Here.attrib.maxOccurs
           again == maxOccurs = "unbounded" \/ f3.occurs < IntOrNone(maxOccurs)[1]
       IN  /\ stdout' = OnStdout(r.st.out)
           /\ files' = InFiles(r.st.out)
           /\ IF r.st.err = "SystemExit" THEN
                  Exiting(r.st.code) /\ UNCHANGED << stack, segmentNo, hl7XML, exception >>
              ELSE IF r.st.err # None THEN
                  Crashing(r.st.err) /\ UNCHANGED << stack, segmentNo, hl7XML >>
              ELSE
                  /\ segmentNo' = segmentNo + 1
                  /\ UNCHANGED << exitCode, exception >>
                  /\ IF NoMoreSegments(segmentNo + 1) \/ Top.isChoice
                     THEN Returning(f2.thisElement, segmentNo + 1)
                     ELSE /\ stack' = Callers \o
                                 << IF again THEN f3 ELSE [f3 EXCEPT !.sequenceAt = @ + 1] >>
                          /\ UNCHANGED << hl7XML, pc >>

validateXML_Match ==
    /\ HasRef /\ ~Differs
    /\ Matched(SegmentElement([Top.locals EXCEPT !.out = << >>]))
    /\ UNCHANGED << messageFile, fileLines, reportFile, Segments, fieldSep, repSep,
                    compSep, subCompSep, msgStruct >>

(***************************************************************************)
(* The main program, lines 953-1103, for one message file                  *)
(***************************************************************************)
reportDir == "."
outputDir == "."

\* chr(11), and chr(28) + chr(13): the MLLP framing.  No TLA+ string holds
\* these characters, so no input of the model is framed
MLLPStart == "<VT>"
MLLPEnd == "<FS><CR>"

\* getDocument, lines 129-141: every line stripped and ended by eol
RECURSIVE getDocument(_, _)
getDocument(lines, eol) ==
    IF lines = << >> THEN ""
    ELSE RStrip(lines[1]) \o eol \o getDocument(Tail(lines), eol)

\* lines 955-972
OpenReport ==
    /\ pc = "open_report"
    /\ IF messageFile = "-"
       THEN /\ reportFile' = "stdout"
            /\ pc' = "get_document"
            /\ UNCHANGED << files, exitCode, exception >>
       ELSE LET reportName == PathJoin(reportDir,
                                       SplitextName(Basename(messageFile)) \o ".rpt")
            IN  IF reportName = messageFile
                THEN \* line 966: 'report_' + reportFile, and reportFile is None
                     Crashing("TypeError") /\ UNCHANGED << reportFile, files >>
                ELSE \/ /\ reportFile' = reportName
                        /\ files' = (reportName :> << >>) @@ files
                        /\ pc' = "get_document"
                        /\ UNCHANGED << exitCode, exception >>
                     \/ /\ Exiting(EX_CANTCREAT)
                        /\ UNCHANGED << reportFile, files, exception >>
    /\ UNCHANGED << messageFile, fileLines, stdout, Segments, segmentNo, fieldSep,
                    repSep, compSep, subCompSep, msgStruct, stack, hl7XML >>

\* lines 975-993
ReadMessage ==
    /\ pc = "get_document"
    /\ \/ /\ messageFile # "-"
          /\ Exiting(EX_CONFIG)          \* line 134: the file is not there
          /\ UNCHANGED Segments
       \/ LET read == getDocument(fileLines, IF messageFile = "-" THEN "\n" ELSE "\r")
              hl7Message == IF Slice(read, 0, 1) = MLLPStart
                               /\ SliceFrom(read, Len(read) - 2) = MLLPEnd
                            THEN Slice(read, 1, Len(read) - 2) ELSE read
              split == Split(RStrip(hl7Message), "\r")
              MSH == split[1]
          IN  /\ Segments' = split
              /\ IF Len(MSH) < 20 THEN Exiting(EX_DATAERR)
                 ELSE IF Slice(MSH, 0, 3) # "MSH" THEN Exiting(EX_DATAERR)
                 ELSE pc' = "parse_encoding" /\ UNCHANGED exitCode
    /\ UNCHANGED << messageFile, fileLines, reportFile, files, stdout, exception,
                    segmentNo, fieldSep, repSep, compSep, subCompSep, msgStruct,
                    stack, hl7XML >>

\* lines 997-1020
ParseEncoding ==
    /\ pc = "parse_encoding"
    /\ LET MSH == Segments[1]
           sep == Slice(MSH, 3, 4)
           MSHfields == Split(MSH, sep)
       IN  /\ fieldSep' = sep
           /\ subCompSep' = IF Len(MSHfields[2]) < 3 THEN "" ELSE Slice(MSHfields[2], 3, 4)
           /\ compSep' = Slice(MSHfields[2], 0, 1)
           /\ repSep' = Slice(MSHfields[2], 1, 2)
           /\ IF Len(MSHfields[2]) < 2 THEN Exiting(EX_DATAERR)
              ELSE IF Len(MSHfields) < 12 THEN Exiting(EX_DATAERR)
              ELSE pc' = "resolve_structure" /\ UNCHANGED exitCode
    /\ UNCHANGED << messageFile, fileLines, reportFile, files, stdout, exception,
                    Segments, segmentNo, msgStruct, stack, hl7XML >>

\* MessageStructure with the test of an ACK type put before the use of the
\* structure component
MessageStructure_AckFirst(struct, sep) ==
    LET typeParts == Split(struct, sep)
        msgType == typeParts[1]
        msgTrigger == typeParts[2]
        given == IF Len(typeParts) = 3 THEN typeParts[3] ELSE ""
    IN  IF struct = "" THEN << >>
        ELSE IF struct = "ACK" THEN << "ACK" >>
        ELSE IF Len(typeParts) = 1 THEN << >>
        ELSE IF msgType = "ACK" /\ msgTrigger = "" THEN << "ACK" >>
        ELSE IF given # "" THEN << given >>
        ELSE IF msgType = "" THEN << >>
        ELSE IF msgTrigger = "" THEN << >>
        ELSE IF msgType \notin DOMAIN hl7messageStructures THEN << >>
        ELSE IF msgTrigger \notin DOMAIN hl7messageStructures[msgType] THEN << >>
        ELSE << hl7messageStructures[msgType][msgTrigger] >>

\* lines 1024-1064: the message structure of MSH-9, as an optional; << >>
\* stands for sys.exit(EX_DATAERR)
MessageStructure(struct, sep) ==
    LET typeParts == Split(struct, sep)
        msgType == typeParts[1]
        msgTrigger == typeParts[2]
        given == IF Len(typeParts) = 3 THEN typeParts[3] ELSE ""
    IN  IF struct = "" THEN << >>
        ELSE IF struct = "ACK" THEN << "ACK" >>
        ELSE IF Len(typeParts) = 1 THEN << >>
        ELSE IF given # "" THEN << given >>
        ELSE IF msgType = "" THEN << >>
        ELSE IF msgTrigger = ""
            THEN IF msgType = "ACK" THEN << "ACK" >> ELSE << >>
        ELSE IF msgType \notin DOMAIN hl7messageStructures THEN << >>
        ELSE IF msgTrigger \notin DOMAIN hl7messageStructures[msgType] THEN << >>
        ELSE << hl7messageStructures[msgType][msgTrigger] >>

ResolveStructure ==
    /\ pc = "resolve_structure"
    /\ LET struct == Split(Segments[1], fieldSep)[9]
           found == MessageStructure(struct, compSep)
       IN  IF found = << >>
           THEN Exiting(EX_DATAERR) /\ UNCHANGED msgStruct
           ELSE /\ msgStruct' = found[1]
                /\ pc' = "load_structure"
                /\ UNCHANGED exitCode
    /\ UNCHANGED << messageFile, fileLines, reportFile, files, stdout, exception,
                    Segments, segmentNo, fieldSep, repSep, compSep, subCompSep,
                    stack, hl7XML >>

\* lines 1067-1083
LoadStructure ==
    /\ pc = "load_structure"
    /\ IF msgStruct \notin DOMAIN messageFiles
       THEN Exiting(EX_DATAERR) /\ UNCHANGED << segmentNo, stack >>
       ELSE LET segmentList == messageFiles[msgStruct][msgStruct \o ".CONTENT"].list
            IN  IF segmentList[1].attrib.ref # "MSH"
                THEN Exiting(EX_CONFIG) /\ UNCHANGED << segmentNo, stack >>
                ELSE /\ segmentNo' = 0
                     /\ stack' = << Activation(segmentList, msgStruct, FALSE, FALSE, 0) >>
                     /\ pc' = "validateXML"
                     /\ UNCHANGED exitCode
    /\ UNCHANGED << messageFile, fileLines, reportFile, files, stdout, exception,
                    Segments, fieldSep, repSep, compSep, subCompSep, msgStruct,
                    hl7XML >>

\* lines 1086-1103: the document goes to standard output or to the XML file
SaveXML ==
    /\ pc = "save"
    /\ IF hl7XML = << >>
       THEN Crashing("AttributeError") /\ UNCHANGED << stdout, files >>
       ELSE LET doc == [hl7XML[1] EXCEPT !.attrib =
                           ("xmlns" :> "urn:hl7-org:v2xml")
                        @@ ("xmlns:xsi" :> "http://www.w3.org/2001/XMLSchema-instance")
                        @@ ("xsi:schemaLocation" :> "urn:hl7-org:v2xml " \o msgStruct \o ".xsd")]
                outputFile == PathJoin(outputDir,
                                       SplitextName(Basename(messageFile)) \o ".xml")
            IN  /\ IF messageFile = "-"
                   THEN stdout' = stdout \o << doc >> /\ UNCHANGED files
                   ELSE files' = (outputFile :> << doc >>) @@ files /\ UNCHANGED stdout
                /\ pc' = "exit"
                /\ exitCode' = EX_OK
                /\ UNCHANGED exception
    /\ UNCHANGED << messageFile, fileLines, reportFile, Segments, segmentNo, fieldSep,
                    repSep, compSep, subCompSep, msgStruct, stack, hl7XML >>

(***************************************************************************)
(* The inputs of the model                                                 *)
(***************************************************************************)
MSH(type) == "MSH|^~\\&|A|B|C|D|20230101||" \o type \o "|1|P|2.4"

MessageTypes ==
    {"ADT^A01", "ADT^A01^ADT_A01", "ADT^A04^ORU_R01", "ADT^A01^ADT_A01^X",
     "ADT^A01^ORU_R01^X",
     "ACK", "ACK^", "ACK^^", "ACK^A01", "ACK^^ADT_A01", "ACK^^ACK", "ACK^^^X",
     "ADT", "ADT^", "^A01", "^A01^", "ADT^A99", "XXX^A01", "", "ADT^A01^NONE",
     "ZZZ^Z01^ZZZ_Z01", "ORU^R01"}

Headers ==
    {MSH(type) : type \in MessageTypes}
      \cup {"MSH|^~\\&|A|B|2.4", "PID|1||123^^^HOSP||Doe^John",
            "MSH|^|A|B|C|D|20230101||ADT^A01|1|P|2.4",
            "MSH|^~\\&|A|B|C|D|20230101", "MSH|^~\\|A|B|C|D|20230101||ADT^A01|1|P|2.4"}

Clean ==
    {"EVN|A01|20230101", "PID|1||123^^^HOSP||Doe^John", "PV1|1|I", "NK1|1|Roe^Jane",
     "OBX|1|ST|8867-4^HR||72"}

RECURSIVE SeqsUpTo(_, _)
SeqsUpTo(S, n) ==
    IF n = 0 THEN {<< >>}
    ELSE LET shorter == SeqsUpTo(S, n - 1)
         IN  shorter \cup {q \o << x >> : q \in {r \in shorter : Len(r) = n - 1}, x \in S}

\* A segment with a content error, or with a content the decomposer treats
\* specially, at the end of the segments that lead the matcher to it
Special ==
    {<< "EVN|A01|20230101", "PID|x||123||Doe" >>,
     << "EVN|A01|20230101", "PID|1||123||Doe||2023-01-01" >>,
     << "EVN|A01|20230101", "PID|1||123||Doe|||M" >>,
     << "EVN|A01|20230101", "PID|1||123||Doe|||Q" >>,
     << "EVN|A01|20230101", "PID|1||123||Doe|||MF" >>,
     << "EVN|A01|20230101", "PID|1||||Doe" >>,
     << "EVN|A01|20230101", "PID|1||\"\"^X||Doe" >>,
     << "EVN|A01|20230101", "PID|1||123^\"\"||Doe" >>,
     << "EVN|A01|20230101", "PID|1||\"\"~\"\"^\"\"||Doe" >>,
     << "EVN|A01|20230101", "PID|1||123~\"\"~456||Doe" >>,
     << "EVN|A01|20230101", "PID|1||123||Doe&\"\"&x^John" >>,
     << "EVN|A01|20230101", "PID|1||123||Doe|\"\"|\"\"" >>,
     << "EVN|A01|20230101", "PID|1||123^9^^HOSP&1.2||Doe^^J" >>,
     << "EVN|A01|20230101", "PIDX|1||123||Doe" >>,
     << "EVN|A01|", "PID|1||123||Doe" >>,
     << "EVN|A01|20230101", "PID|1||123||Doe", "PD1|A|zz" >>,
     << "EVN|A01|20230101", "PID|1||123||Doe", "NK1|x|Roe" >>,
     << "EVN|A01|20230101", "PID|1||123||Doe", "NK1|1|Roe|MTH^Mother^L" >>,
     << "EVN|A01|20230101", "PID|1||123||Doe", "NK1|1|Roe|M^Mo" >>,
     << "EVN|A01|20230101", "PID|1||123^^M11||Doe" >>,
     << "EVN|A01|20230101", "PID|1||999^^M11||Doe" >>,
     << "EVN|A01|20230101", "PID|1||123^^^HOSP&1.2&ISO||Doe" >>,
     << "EVN|A01|20230101", "PID|1||123^^^XX&1.2&ISO||Doe" >>,
     << "EVN|A01|20230101", "PID|1||123||Doe", "PV1|1|X" >>,
     << "EVN|A01|20230101", "PID|1||123||Doe", "PV1|1|" >>,
     << "EVN|A01|20230101", "PID|1||123||Doe", "PV1|1|I", "NTE|1||a~b^c\\.br\\d" >>,
     << "EVN|A01|20230101", "PID|1||123||Doe", "PV1|1|I", "NTE|1||\"\"" >>,
     << "EVN|A01|20230101", "PID|1||123||Doe", "PV1|1|I", "OBX|1|FT|1^HR||a~b" >>,
     << "EVN|A01|20230101", "PID|1||123||Doe", "PV1|1|I", "OBX|1|NM|1^HR||7~x" >>,
     << "EVN|A01|20230101", "PID|1||123||Doe", "PV1|1|I", "OBX|1|ST|1^HR|abc|7" >>,
     << "EVN|A01|20230101", "PID|1||123||Doe", "PV1|1|I", "OBX|1|CE|1^HR^LN||7" >>,
     << "EVN|A01|20230101", "PID|1||123||Doe", "PV1|1|I", "OBX|1|ST|88&67||72" >>,
     << "EVN|A01|20230101", "PID|1||123||Doe", "PV1|1|I", "OBX|1|ST|8867-4^HR||72",
        "OBX|2|ST|8867-4^HR||73" >>,
     << "EVN|A01|20230101", "PID|1||123||Doe", "NK1|1|Roe^Jane", "NK1|2|Roe^Jim",
        "PV1|1|I" >>,
     << "EVN|A01|20230101", "PID|1||123||Doe", "PV1|1|I", "PR1|1", "NTE|1||note",
        "NTE|2||more" >>}

Followers == {<< >>, << "OBX|1|ST|8867-4^HR||72" >>}

\* bodies for ORU_R01, whose group ORU_R01.RESULT is a choice of OBX and NTE
Results ==
    {<< "OBX|1|ST|8867-4^HR||72" >>, << "NTE|1||note" >>,
     << "OBX|1|ST|8867-4^HR||72", "NTE|1||note" >>,
     << "NTE|1||note", "OBX|1|ST|8867-4^HR||72" >>}

\* bodies for ZZZ_Z02, where two positions for NTE follow each other
Notes ==
    {<< "NTE|1||note" >>, << "NTE|1||note", "NTE|2||more" >>,
     << "NTE|1||note", "NTE|2||more", "NTE|3||last" >>,
     << "NTE|1||note", "NTE|2||more", "NTE|3||last", "OBX|1|ST|8867-4^HR||72" >>,
     << "NTE|1||note", "NTE|2||more", "NTE|3||last", "NTE|4||over" >>}

\* bodies for ZZZ_Z03, whose group ZZZ_Z03.LOOP holds itself
Cycles == {<< "NTE|1||note" >>, << "NTE|1||note", "NTE|2||more" >>}

Messages ==
    [file : {"in/msg.hl7"},
     lines : {<< MSH("ADT^A01") >> \o body : body \in SeqsUpTo(Clean, MaxBody)}]
 \cup
    [file : {"in/msg.hl7", "-"},
     lines : {<< MSH("ADT^A01") >> \o body \o more : body \in Special, more \in Followers}]
 \cup
    [file : {"in/msg.hl7", "-"},
     lines : {<< header >> \o body : header \in Headers,
                 body \in {<< >>, << "MSA|AA|1" >>, << "MSA|AA|1", "EVN|A01|20230101" >>}}]
 \cup
    [file : {"in/msg.hl7"},
     lines : {<< MSH("ADT^A04^ORU_R01") >> \o body : body \in Results}]
 \cup
    [file : {"in/msg.hl7"},
     lines : {<< MSH("ZZZ^Z02^ZZZ_Z02") >> \o body : body \in Notes}]
 \cup
    [file : {"in/msg.hl7"},
     lines : {<< MSH("ZZZ^Z03^ZZZ_Z03") >> \o body : body \in Cycles}]
 \cup
    [file : {"./msg.rpt"}, lines : {<< MSH("ACK") >>}]

Init ==
    /\ \E m \in Messages : messageFile = m.file /\ fileLines = m.lines
    /\ pc = "open_report"
    /\ reportFile = None
    /\ files = << >>
    /\ stdout = << >>
    /\ exitCode = None
    /\ exception = None
    /\ Segments = << >>
    /\ segmentNo = 0
    /\ fieldSep = None /\ repSep = None /\ compSep = None /\ subCompSep = None
    /\ msgStruct = None
    /\ stack = << >>
    /\ hl7XML = << >>

Next ==
    \/ OpenReport
    \/ ReadMessage
    \/ ParseEncoding
    \/ ResolveStructure
    \/ LoadStructure
    \/ validateXML_Entry
    \/ validateXML_LoopExit
    \/ validateXML_MissingRef
    \/ validateXML_Group
    \/ validateXML_SkipOptional
    \/ validateXML_Unexpected
    \/ validateXML_Match
    \/ SaveXML

Spec == Init /\ [][Next]_vars

(***************************************************************************)
(* fixElement on its own, lines 526-662: one call on an element whose text *)
(* is a free text made of literal runs and escape tokens.  The call's      *)
(* arguments are the only activation on the stack, the element is hl7XML   *)
(* (fixElement changes it in place), and the returned value is recorded in *)
(* the activation.                                                         *)
(***************************************************************************)
Literals == {"a b"}

\* tokens of xmlReplacements, lines 95-102
Markups == {"\\H\\", "\\N\\", "\\.br\\", "\\.sp 2\\", "\\.in+1\\", "\\.ti -3\\"}

\* tokens of charXref and charZref, lines 103-104
CharRefs == {"\\X0D\\", "\\Z410a\\"}

PartSeqs == UNION {[1 .. n -> Literals \cup Markups \cup CharRefs] : n \in 0 .. MaxParts}

RECURSIVE Concat(_)
Concat(parts) == IF parts = << >> THEN "" ELSE parts[1] \o Concat(Tail(parts))

\* textType, parentType, parentSequence as the callers pass them for a free
\* text: a field (lines 490) or a component of a coded field (line 449)
FixCalls == {<< "TX", None, 0 >>, << "CF", None, 0 >>, << "FT", "CE", 2 >>}

FixInit ==
    /\ pc = "fixElement"
    /\ \E parts \in PartSeqs, call \in FixCalls :
          /\ stack = << [parts |-> parts, textType |-> call[1], parentType |-> call[2],
                         parentSequence |-> call[3],
                         parentXML |-> IF call[2] = None THEN << >>
                                       ELSE << Element("NTE.3") >>,
                         returned |-> << >>] >>
          /\ hl7XML = << [Element("thisElement") EXCEPT !.text = Concat(parts)] >>
    /\ messageFile = "-" /\ fileLines = << >>
    /\ reportFile = None
    /\ files = << >>
    /\ stdout = << >>
    /\ exitCode = None
    /\ exception = None
    /\ Segments = << >>
    /\ segmentNo = 0
    /\ fieldSep = None /\ repSep = None /\ compSep = None /\ subCompSep = None
    /\ msgStruct = None

FixElementCall ==
    /\ pc = "fixElement"
    /\ LET call == stack[1]
           fixed == fixElement(hl7XML[1], call.textType, call.parentType,
                               call.parentSequence, call.parentXML)
       IN  /\ hl7XML' = << fixed.elem >>
           /\ stack' = << [call EXCEPT !.returned = << fixed.comment >>] >>
    /\ pc' = "returned"
    /\ UNCHANGED << messageFile, fileLines, reportFile, files, stdout, exitCode,
                    exception, Segments, segmentNo, fieldSep, repSep, compSep,
                    subCompSep, msgStruct >>

FixNext == FixElementCall

FixSpec == FixInit /\ [][FixNext]_vars


(***************************************************************************)
(* What the properties below read: the message as given, the grammar of    *)
(* its structure, the output tree and the report stream                    *)
(***************************************************************************)
CodesOf(lines) == [n \in DOMAIN lines |-> Slice(lines[n], 0, 3)]

\* Segments whose every field is valid against the schema of the model
ValidSegments ==
    Clean \cup {"PID|1||123||Doe", "OBX|2|ST|8867-4^HR||73", "OBX|1|ST|88&67||72",
                "NK1|2|Roe^Jim", "PR1|1",
                "NTE|1||note", "NTE|2||more"}

ValidFields ==
    /\ Segments[1] = MSH("ADT^A01")
    /\ \A n \in 2..Len(Segments) : Segments[n] \in ValidSegments

\* The positions of codes that the grammar can have reached, from the
\* positions S, after the nodes of a sequence, after one node, and after
\* exactly k occurrences of one node
RECURSIVE MatchSeq(_, _, _, _), MatchNode(_, _, _, _), MatchTimes(_, _, _, _, _)
MatchSeq(struct, list, codes, S) ==
    IF list = << >> THEN S
    ELSE MatchSeq(struct, Tail(list), codes, MatchNode(struct, list[1], codes, S))

MatchNode(struct, node, codes, S) ==
    LET least == IntOrNone(node.attrib.minOccurs)[1]
        most == IF node.attrib.maxOccurs = "unbounded" THEN Len(codes)
                ELSE IntOrNone(node.attrib.maxOccurs)[1]
    IN  UNION {MatchTimes(struct, node, codes, S, k) : k \in least..most}

MatchTimes(struct, node, codes, S, k) ==
    IF k = 0 THEN S
    ELSE LET before == MatchTimes(struct, node, codes, S, k - 1)
             ref == node.attrib.ref
             group == messageFiles[struct][ref \o ".CONTENT"]
         IN  IF Len(ref) <= 3
             THEN {p + 1 : p \in {q \in before : q < Len(codes) /\ codes[q + 1] = ref}}
             ELSE IF group.kind = "choice"
             THEN UNION {MatchNode(struct, group.list[i], codes, before) :
                            i \in DOMAIN group.list}
             ELSE MatchSeq(struct, group.list, codes, before)

\* The segment codes exactly satisfy the grammar of the message structure
Conforms(struct, codes) ==
    Len(codes) \in MatchSeq(struct, messageFiles[struct][struct \o ".CONTENT"].list,
                            codes, {0})

\* The grammar positions of a structure, those of its groups included
NodesOf(struct) ==
    UNION {{messageFiles[struct][name].list[i] :
                i \in DOMAIN messageFiles[struct][name].list} :
           name \in DOMAIN messageFiles[struct]}

SegmentNodes(struct) ==
    {node \in NodesOf(struct) : "ref" \in DOMAIN node.attrib /\ Len(node.attrib.ref) <= 3}

RequiredSegments(struct) ==
    {node.attrib.ref : node \in {m \in SegmentNodes(struct) : m.attrib.minOccurs # "0"}}

UnboundedSegments(struct) ==
    {node.attrib.ref :
        node \in {m \in SegmentNodes(struct) : m.attrib.maxOccurs = "unbounded"}}

Insert(codes, p, code) ==
    SubSeq(codes, 1, p) \o << code >> \o SubSeq(codes, p + 1, Len(codes))

\* The message lacks the segment `code` and conforms once it is put back
Lacks(struct, codes, code) ==
    /\ ~Conforms(struct, codes)
    /\ \E p \in 1..Len(codes) : Conforms(struct, Insert(codes, p, code))

StartsWith(s, prefix) == Len(s) >= Len(prefix) /\ SubSeq(s, 1, Len(prefix)) = prefix

Contains(s, sub) ==
    \E i \in 0..(Len(s) - Len(sub)) : SubSeq(s, i + 1, i + Len(sub)) = sub

\* The elements of the tree under e, e included, and the texts of its comments
RECURSIVE ElementsIn(_)
ElementsIn(e) ==
    {e} \cup UNION {ElementsIn(e.children[n]) : n \in DOMAIN e.children}

CommentsIn(e) == {c.text : c \in {x \in ElementsIn(e) : x.tag = CommentTag}}

ChildrenTagged(e, tag) == SelectSeq(e.children, LAMBDA c : c.tag = tag)

\* The lines of the report stream.  The report of a message read from
\* standard input goes to standard output, where the document follows it
ReportStream ==
    IF reportFile = "stdout"
    THEN IF pc = "exit" /\ exitCode = EX_OK
         THEN SubSeq(stdout, 1, Len(stdout) - 1) ELSE stdout
    ELSE IF reportFile \in DOMAIN files THEN files[reportFile] ELSE << >>

\* The run is over and it had a message to work on
Ended == pc = "exit" /\ Segments # << >>

\* The run is over and the document is saved
Saved == Ended /\ exitCode = EX_OK /\ hl7XML # << >>

\* The fields of segment n as validateXML numbers them: Field(n, i) is <Seg>-i
Field(n, i) == Split(Segments[n], fieldSep)[i + 1]
FieldCount(n) == Len(Split(Segments[n], fieldSep)) - 1

\* MSH-9 and its components
MSH9 == Split(Segments[1], fieldSep)[9]
MSH9Parts == Split(MSH9, compSep)

LookedUp ==
    /\ Len(MSH9Parts) >= 2
    /\ MSH9Parts[1] \in DOMAIN hl7messageStructures
    /\ MSH9Parts[2] \in DOMAIN hl7messageStructures[MSH9Parts[1]]
    /\ msgStruct = hl7messageStructures[MSH9Parts[1]][MSH9Parts[2]]

(***************************************************************************)
(* The properties                                                          *)
(***************************************************************************)

\* C1: a message whose segments exactly satisfy the grammar of its structure,
\* nested groups included, and whose fields are valid is validated without an
\* abort, and its output tree holds no diagnostic comment
C1_ConformingMessageIsClean ==
    (Ended /\ ValidFields /\ Conforms("ADT_A01", CodesOf(Segments)))
        => (Saved /\ CommentsIn(hl7XML[1]) = {})

\* C2: when a segment the grammar requires is absent from a message that
\* otherwise conforms, a diagnostic names the missing segment, as a comment of
\* the tree and as a line of the report, and the run ends successfully,
\* whether segments follow the gap or the message ends before it
C2_MissingSegmentIsNamed ==
    (Ended /\ ValidFields)
        => \A code \in RequiredSegments("ADT_A01") :
              Lacks("ADT_A01", CodesOf(Segments), code)
                  => /\ Saved
                     /\ \E c \in CommentsIn(hl7XML[1]) : Contains(c, code)
                     /\ \E n \in DOMAIN ReportStream : Contains(ReportStream[n], code)

\* C3: the n consecutive segments that match a grammar position with
\* maxOccurs unbounded become n sibling elements of one parent, and none of
\* them is reported as unexpected
C3_UnboundedRepeatsAreSiblings ==
    (Ended /\ ValidFields /\ Conforms("ADT_A01", CodesOf(Segments)))
        => \A code \in UnboundedSegments("ADT_A01") :
              LET codes == CodesOf(Segments)
                  at == {n \in DOMAIN codes : codes[n] = code}
                  consecutive == \A a, b \in at : \A n \in a..b : n \in at
              IN  (at # {} /\ consecutive)
                      => /\ Saved
                         /\ \E parent \in ElementsIn(hl7XML[1]) :
                               Len(ChildrenTagged(parent, code)) = Cardinality(at)
                         /\ \A c \in CommentsIn(hl7XML[1]) : ~Contains(c, "Unexpected")

\* C4: a message whose first segment is shorter than 20 characters is given
\* up with exit code 65, and neither its report file nor its XML file exists
\* at that moment
C4_ShortFirstSegmentLeavesNoFile ==
    (Ended /\ Len(Segments[1]) < 20)
        => (exitCode = EX_DATAERR /\ DOMAIN files = {})

\* C5: once the message has passed the checks of the main program, no error
\* of its content ends the run with an exception: validateXML records the
\* error and goes on
C5_ContentErrorsDoNotAbort ==
    (Ended /\ stack # << >>) => exception = None

\* C6: every diagnostic comment of the output tree has its line in the
\* report stream
C6_CommentsHaveReportLines ==
    Saved => \A c \in CommentsIn(hl7XML[1]) :
                \E n \in DOMAIN ReportStream : StartsWith(ReportStream[n], c)

\* C7, as amended: the structure is ACK when MSH-9 is ACK; otherwise it is
\* the third component when MSH-9 has exactly three components and the third
\* is not empty, also when the type is ACK and the trigger is empty;
\* otherwise it is ACK when the type is ACK and the trigger is empty;
\* otherwise it is looked up by type and trigger
C7_StructureResolution ==
    pc = "load_structure"
        => IF MSH9 = "ACK" THEN msgStruct = "ACK"
           ELSE IF Len(MSH9Parts) = 3 /\ MSH9Parts[3] # "" THEN msgStruct = MSH9Parts[3]
           ELSE IF Len(MSH9Parts) >= 2 /\ MSH9Parts[1] = "ACK" /\ MSH9Parts[2] = ""
               THEN msgStruct = "ACK"
           ELSE LookedUp

\* C7, as stated: the structure is ACK whenever MSH-9 is ACK or its type is
\* ACK and its trigger is empty, whatever the third component; for any other
\* value a structure component that is present is used, and the lookup is
\* made only when it is absent
C7_AckWhateverTheThirdComponent ==
    pc = "load_structure"
        => IF MSH9 = "ACK"
              \/ (Len(MSH9Parts) >= 2 /\ MSH9Parts[1] = "ACK" /\ MSH9Parts[2] = "")
           THEN msgStruct = "ACK"
           ELSE IF Len(MSH9Parts) >= 3 /\ MSH9Parts[3] # "" THEN msgStruct = MSH9Parts[3]
           ELSE LookedUp

\* An ACK type with an empty trigger and another structure has been resolved
C7_AckWithAnotherStructure ==
    /\ pc = "load_structure"
    /\ Len(MSH9Parts) = 3 /\ MSH9Parts[1] = "ACK" /\ MSH9Parts[2] = ""
    /\ MSH9Parts[3] \notin {"", "ACK"}
    /\ msgStruct = MSH9Parts[3]

\* C8: an empty field of a matched segment that the schema requires
\* (minOccurs > 0) gets a missing-required-field diagnostic that names
\* <Seg>-<i>, as a comment of the tree and as a line of the report
C8_EmptyRequiredFieldIsReported ==
    Saved
        => \A n \in 2..Len(Segments) :
              LET seg == Slice(Segments[n], 0, 3)
                  named(i) == "[" \o seg \o "-" \o ToString(i) \o "]"
              IN  (seg \in DOMAIN segmentRoot /\ ChildrenTagged(hl7XML[1], seg) # << >>)
                      => \A i \in 1..FieldCount(n) :
                            (/\ i <= Len(segmentRoot[seg])
                             /\ segmentRoot[seg][i].attrib.minOccurs # "0"
                             /\ Field(n, i) = "")
                                => /\ \E c \in CommentsIn(hl7XML[1]) :
                                         Contains(c, "Missing") /\ Contains(c, named(i))
                                   /\ \E m \in DOMAIN ReportStream :
                                         Contains(ReportStream[m], named(i))

\* C9: a value of datatype FT is split neither into repetitions nor into
\* components: an OBX-5 whose type OBX-2 gives as FT is one OBX.5 element
\* that carries the whole value, and an NTE-3 is one NTE.3 element
C9_FormattedTextIsOneField ==
    Saved
        => \A n \in 2..Len(Segments) :
              LET seg == Slice(Segments[n], 0, 3)
              IN  /\ (seg = "OBX" /\ FieldCount(n) >= 5 /\ Field(n, 2) = "FT"
                         /\ Field(n, 5) # "")
                        => \E e \in ElementsIn(hl7XML[1]) :
                              /\ e.tag = "OBX"
                              /\ Len(ChildrenTagged(e, "OBX.5")) = 1
                              /\ ChildrenTagged(e, "OBX.5")[1].text = Field(n, 5)
                  /\ (seg = "NTE" /\ FieldCount(n) >= 3 /\ Field(n, 3) \notin {"", "\"\""})
                        => \E e \in ElementsIn(hl7XML[1]) :
                              e.tag = "NTE" /\ Len(ChildrenTagged(e, "NTE.3")) = 1

\* The components the schema gives the datatype of a field
ComponentsOf(fieldTag) ==
    IF fieldTag \notin DOMAIN fieldRoot THEN {}
    ELSE IF fieldRoot[fieldTag].Type \notin DOMAIN dataTypeSequences THEN {}
    ELSE {dataTypeSequences[fieldRoot[fieldTag].Type][i].attrib.ref :
             i \in DOMAIN dataTypeSequences[fieldRoot[fieldTag].Type]}

\* C10: a deletion marker is skipped where it stands: the message that has
\* one gets no diagnostic for it, and no element of another component,
\* repetition or field is attached in its place, so that every element under
\* a field is a component of that field's datatype
C10_DeletionMarkerLeavesNothing ==
    (Saved /\ \E n \in 2..Len(Segments) : Contains(Segments[n], "\"\""))
        => \A s \in {x \in ElementsIn(hl7XML[1]) : x.tag \in DOMAIN segmentRoot} :
              \A i \in DOMAIN s.children :
                 \A j \in DOMAIN s.children[i].children :
                    LET field == s.children[i]
                        under == field.children[j]
                    IN  /\ under.tag # CommentTag
                        /\ under.tag = "escape" \/ under.tag \in ComponentsOf(field.tag)

\* Segments whose components carry a code of table HL70396
CodedSegments == {"NK1|1|Roe|MTH^Mother^L", "OBX|1|CE|1^HR^LN||7"}

\* The table the schema gives component k of field <seg>-<i>, None without one
ComponentTable(seg, i, k) ==
    LET ref == seg \o "." \o ToString(i)
        type == fieldRoot[ref].Type
    IN  IF ref \notin DOMAIN fieldRoot THEN None
        ELSE IF type \notin DOMAIN dataTypeSequences THEN None
        ELSE IF k > Len(dataTypeSequences[type]) THEN None
        ELSE dataTypeAttributes[dataTypeSequences[type][k].attrib.ref].Table

\* C11: a component whose own Type Descriptor names a table T of the
\* configured code tables is tested against the codes of T and of no other
\* table: the run goes on, a value of T gets no illegal-value diagnostic and a
\* value outside T gets one that names T
C11_CodeTableOfTheUnit ==
    (Ended /\ Segments[1] = MSH("ADT^A01")
           /\ \A n \in 2..Len(Segments) : Segments[n] \in ValidSegments \cup CodedSegments)
        => \A n \in 2..Len(Segments) : \A i \in 1..FieldCount(n) :
              LET seg == Slice(Segments[n], 0, 3)
                  Components == Split(Field(n, i), compSep)
              IN  \A k \in DOMAIN Components :
                     LET table == ComponentTable(seg, i, k)
                         illegal == \E c \in CommentsIn(hl7XML[1]) :
                                       Contains(c, "Illegal value") /\ Contains(c, table)
                     IN  (table \in DOMAIN hl7Tables /\ Components[k] \notin {"", "\"\""})
                            => /\ Saved
                               /\ InList(Components[k], hl7Tables[table].codes) <=> ~illegal

\* Segments with a field one character longer than its configured length
LongSegments == {"NK1|1|Roe|M^Mo", "OBX|1|ST|1^HR|abc|7"}

LongComment(fieldCode) ==
    \E c \in CommentsIn(hl7XML[1]) :
        Contains(c, "Illegally long") /\ Contains(c, "[" \o fieldCode \o "]")

\* C12: for a field with a configured maximum length L that is not a
\* sentinel, a value of L characters gets no illegal-length diagnostic and a
\* value of L + 1 characters gets one, whatever the datatype of the field
C12_LengthBoundary ==
    (Ended /\ Segments[1] = MSH("ADT^A01")
           /\ \A n \in 2..Len(Segments) : Segments[n] \in ValidSegments \cup LongSegments)
        => \A n \in 2..Len(Segments) : \A i \in 1..FieldCount(n) :
              LET fieldCode == Slice(Segments[n], 0, 3) \o "-" \o ToString(i)
                  L == fieldLengths[fieldCode]
              IN  (fieldCode \in DOMAIN fieldLengths /\ L \notin {999999, 65356})
                     => /\ Len(Field(n, i)) = L => (Saved => ~LongComment(fieldCode))
                        /\ Len(Field(n, i)) = L + 1 => (Saved /\ LongComment(fieldCode))

\* Segments whose PID-3 gives a coding system of a configured value set, as
\* third component or as third sub-component of the fourth component
ValueSetSegments ==
    {"PID|1||123^^M11||Doe", "PID|1||999^^M11||Doe",
     "PID|1||123^^^HOSP&1.2&ISO||Doe", "PID|1||123^^^XX&1.2&ISO||Doe"}

\* The value sets of code, the identifier paired with the coding system
\* that stands third in units, and the diagnostic of a mismatch
Mismatch(code, units) ==
    /\ Len(units) >= 3
    /\ code \in DOMAIN valueSets
    /\ units[3] \in DOMAIN valueSets[code]
    /\ ~InList(units[1], valueSets[code][units[3]])

MismatchComment(identifier) ==
    \E c \in CommentsIn(hl7XML[1]) :
        Contains(c, "Identifier \"" \o identifier \o "\" not in coding system")

\* C13: where a component or sub-component gives the coding system of a
\* configured value set, the identifier two positions before it is tested
\* against that value set: the run raises no error, and the diagnostic is
\* emitted exactly when the identifier is not in the set
C13_ValueSetCrossCheck ==
    (Ended /\ Segments[1] = MSH("ADT^A01")
           /\ \A n \in 2..Len(Segments) : Segments[n] \in ValidSegments \cup ValueSetSegments)
        => \A n \in 2..Len(Segments) :
              (Segments[n] \in ValueSetSegments)
                 => LET Components == Split(Field(n, 3), compSep)
                        subComponents == IF Len(Components) >= 4
                                         THEN Split(Components[4], subCompSep) ELSE << >>
                    IN  /\ Saved
                        /\ Mismatch("PID-3", Components) <=> MismatchComment(Components[1])
                        /\ Mismatch("PID-3.4", subComponents)
                              <=> (subComponents # << >> /\ MismatchComment(subComponents[1]))

(***************************************************************************)
(* What the properties of fixElement read: the call and what it left       *)
(***************************************************************************)
Returned == pc = "returned" /\ Len(stack) = 1 /\ hl7XML # << >>
Parts == stack[1].parts
OnlyLiterals == \A i \in DOMAIN Parts : Parts[i] \in Literals

\* C14: a free-text value (TX, FT, CF) without any escape token leaves
\* fixElement as it entered it: the same text, no escape child, and the
\* function returns no diagnostic.
C14_LiteralTextIsUntouched ==
    (Returned /\ OnlyLiterals)
        => /\ hl7XML[1].text = Concat(Parts)
           /\ hl7XML[1].children = << >>
           /\ stack[1].returned = << None >>

C14_LiteralTextRewritten ==
    /\ Returned
    /\ Parts = << "a b", "a b" >>
    /\ stack[1].textType = "TX"
    /\ hl7XML[1].text = "a ba b"
    /\ stack[1].returned = << None >>

\* the text of an element followed by the tails of its children
RECURSIVE Tails(_)
Tails(children) ==
    IF children = << >> THEN "" ELSE children[1].tail \o Tails(Tail(children))

Content(e) == e.text \o Tails(e.children)

\* the references of the character-code tokens: the digits as the token has
\* them, and the digits in lower case
ReferencesAsWritten == ("\\X0D\\" :> "&#x0D;") @@ ("\\Z410a\\" :> "&#x41;&#x0a;")
ReferencesLowerCase == ("\\X0D\\" :> "&#x0d;") @@ ("\\Z410a\\" :> "&#x41;&#x0a;")

\* the text that is left of the parts when every character-code token is
\* replaced by its references and every markup token is taken out
RECURSIVE Spliced(_, _)
Spliced(parts, references) ==
    IF parts = << >> THEN ""
    ELSE (IF parts[1] \in CharRefs THEN references[parts[1]]
          ELSE IF parts[1] \in Markups THEN ""
          ELSE parts[1]) \o Spliced(Tail(parts), references)

MarkupParts == {i \in DOMAIN Parts : Parts[i] \in Markups}

CharRefsSpliced(references) ==
    Returned
        => /\ Content(hl7XML[1]) = Spliced(Parts, references)
           /\ Len(hl7XML[1].children) = Cardinality(MarkupParts)
           /\ ~Contains(Content(hl7XML[1]), "\\X")
           /\ ~Contains(Content(hl7XML[1]), "\\Z")

MarkupCodes ==
    ("\\H\\" :> "H") @@ ("\\N\\" :> "N") @@ ("\\.br\\" :> ".br")
        @@ ("\\.sp 2\\" :> ".sp 2") @@ ("\\.in+1\\" :> ".in+1") @@ ("\\.ti -3\\" :> ".ti -3")

\* the place in Parts of the j-th markup token, and Len(Parts) + 1 past the last
MarkupAt(j) ==
    IF j > Cardinality(MarkupParts) THEN Len(Parts) + 1
    ELSE CHOOSE i \in MarkupParts : Cardinality({k \in MarkupParts : k < i}) = j - 1

\* what stands between the j-th markup token and the next one
AfterMarkup(j) ==
    Spliced(SubSeq(Parts, MarkupAt(j) + 1, MarkupAt(j + 1) - 1), ReferencesAsWritten)

AtGroupPosition ==
    /\ stack # << >>
    /\ stack[Len(stack)].sequenceAt < Len(stack[Len(stack)].sequenceList)
    /\ LET node == stack[Len(stack)].sequenceList[stack[Len(stack)].sequenceAt + 1]
       IN  /\ {"ref", "minOccurs", "maxOccurs"} \subseteq DOMAIN node.attrib
           /\ Len(node.attrib.ref) > 3
           /\ GroupContent(node.attrib.ref) # << >>

\* C17: a run never ends with the configuration error while the matcher
\* stands at a group reference that has its ref, minOccurs and maxOccurs
\* attributes and whose content is defined: such a group is entered.
C17_CompleteGroupIsEntered ==
    (Segments # << >> /\ pc = "exit" /\ exitCode = EX_CONFIG) => ~AtGroupPosition

\* the members of the choice ORU_R01.RESULT
ChoiceMembers ==
    LET list == messageFiles["ORU_R01"]["ORU_R01.RESULT.CONTENT"].list
    IN  {list[n].attrib.ref : n \in DOMAIN list}

\* C18: where the grammar has a choice, a segment whose code is one of the
\* choice's members is matched as that member: the run does not abort, the
\* segment is not reported unexpected, and the group's element holds
\* exactly one member element, the one of that segment.
C18_ChoiceMemberIsMatched ==
    (Ended /\ msgStruct = "ORU_R01" /\ Len(Segments) >= 2
           /\ Slice(Segments[2], 0, 3) \in ChoiceMembers)
        => /\ Saved
           /\ ~\E c \in CommentsIn(hl7XML[1]) : StartsWith(c, "Unexpected Segment at 2:")
           /\ Len(ChildrenTagged(hl7XML[1], "ORU_R01.RESULT")) >= 1
           /\ LET group == ChildrenTagged(hl7XML[1], "ORU_R01.RESULT")[1]
              IN  /\ Len(group.children) = 1
                  /\ group.children[1].tag = Slice(Segments[2], 0, 3)

\* the segments of code seg that follow each other from segment n on
RECURSIVE RunFrom(_, _)
RunFrom(n, seg) ==
    IF n > Len(Segments) \/ Slice(Segments[n], 0, 3) # seg THEN 0
    ELSE 1 + RunFrom(n + 1, seg)

MinOf(a, b) == IF a < b THEN a ELSE b

\* C19: in ZZZ_Z02 the position NTE (at most 1) is followed by the position
\* NTE (at most 2): of the NTE segments that follow MSH the first position
\* takes min(1, available) and the second min(2, what is left), so the
\* document holds min(3, available) NTE elements, and never more.
C19_BoundedRepetition ==
    (Ended /\ msgStruct = "ZZZ_Z02" /\ Len(Segments) >= 2)
        => /\ Saved
           /\ Len(ChildrenTagged(hl7XML[1], "NTE")) = MinOf(3, RunFrom(2, "NTE"))

\* the matcher stands at a required segment position that the current
\* segment does not match, in a list that is not optional
AtUnmatchedRequired ==
    /\ Differs
    /\ Len(Here.attrib.ref) <= 3
    /\ Here.attrib.minOccurs # "0"
    /\ ~Top.optional

UnexpectedDiagnostic ==
    "Unexpected Segment at " \o ToString(segmentNo + 1) \o ": \"" \o Segments[segmentNo + 1]
        \o "\""

\* the element under construction with the diagnostic added as a comment
WithDiagnostic ==
    LET e == IF Top.thisElement = << >> THEN Element(Top.tag) ELSE Top.thisElement[1]
    IN  [e EXCEPT !.children = @ \o << [tag |-> CommentTag, text |-> UnexpectedDiagnostic,
                                         tail |-> None, attrib |-> << >>,
                                         children |-> << >>] >>]

\* C20: at a required segment position that the current segment does not
\* match, in a list that is not optional, the step writes one line
\* "Unexpected Segment at <n>: ..." for the current segment to the report,
\* adds the same text as one comment under the list's element, advances
\* segmentNo by one, and stays at the same grammar position; when no
\* segment is left it returns the element instead.
C20_UnexpectedSegmentIsSkipped ==
    [][AtUnmatchedRequired
         => /\ segmentNo' = segmentNo + 1
            /\ ReportStream' = ReportStream \o << UnexpectedDiagnostic >>
            /\ exitCode' = None
            /\ IF segmentNo + 1 < Len(Segments)
               THEN /\ pc' = "validateXML"
                    /\ Len(stack') = Len(stack)
                    /\ stack'[Len(stack)].sequenceAt = Top.sequenceAt
                    /\ stack'[Len(stack)].at = "loop"
                    /\ stack'[Len(stack)].thisElement = << WithDiagnostic >>
               ELSE Len(stack) = 1 => (stack' = << >> /\ hl7XML' = << WithDiagnostic >>)]_vars

C20_SegmentWasSkipped ==
    /\ AtLoop
    /\ segmentNo = 3
    /\ Top.sequenceAt = 2
    /\ Top.thisElement # << >>
    /\ \E n \in DOMAIN Top.thisElement[1].children :
          /\ Top.thisElement[1].children[n].tag = CommentTag
          /\ StartsWith(Top.thisElement[1].children[n].text, "Unexpected Segment at 3: ")

\* the tags of the segment elements directly under the document element
SegmentTags(e) ==
    LET segs == SelectSeq(e.children, LAMBDA c : c.tag # CommentTag)
    IN  [n \in DOMAIN segs |-> segs[n].tag]

\* C21: when the optional group ADT_A01.PROCEDURE finds nothing to match
\* (the segment after PV1 is NK1, and the group starts with PR1), the group
\* is skipped and the scan goes on: the run ends with a document that holds
\* the segments matched so far, and no diagnostic is written for the group.
C21_AbsentOptionalGroupIsSkipped ==
    (Ended /\ ValidFields
           /\ CodesOf(Segments) = << "MSH", "EVN", "PID", "PV1", "NK1" >>)
        => /\ Saved
           /\ SegmentTags(hl7XML[1]) = << "MSH", "EVN", "PID", "PV1" >>
           /\ ~\E n \in DOMAIN ReportStream : Contains(ReportStream[n], "PROCEDURE")

\* C22: the match of a message returns also when a group of the schema
\* holds itself (ZZZ_Z03.LOOP): the recursion ends at the depth limit with
\* "Unexpected Segment at <n> - ..." for the segment at hand, so the run
\* ends with a document and every segment after MSH has such a line.
C22_CyclicGroupEndsAtDepthLimit ==
    (Ended /\ msgStruct = "ZZZ_Z03")
        => /\ Saved
           /\ \A n \in 2 .. Len(Segments) :
                 \E k \in DOMAIN ReportStream :
                    ReportStream[k] = "Unexpected Segment at " \o ToString(n) \o " - \""
                                         \o Segments[n] \o "\""

\* the segments that an element holds: its segment elements and its
\* unexpected-segment comments, those of its group elements included
RECURSIVE Emissions(_)
RECURSIVE EmissionsOf(_)
EmissionsOf(children) ==
    IF children = << >> THEN 0
    ELSE (IF children[1].tag = CommentTag \/ Len(children[1].tag) <= 3 THEN 1
          ELSE Emissions(children[1])) + EmissionsOf(Tail(children))

Emissions(e) == EmissionsOf(e.children)

RECURSIVE EmissionsOnStack(_)
EmissionsOnStack(stk) ==
    IF stk = << >> THEN 0
    ELSE (IF stk[1].thisElement = << >> THEN 0 ELSE Emissions(stk[1].thisElement[1]))
            + EmissionsOnStack(Tail(stk))

\* the segments emitted so far, in the elements under construction and in
\* the element that the top-level match returned
Emitted == EmissionsOnStack(stack) + (IF hl7XML = << >> THEN 0 ELSE Emissions(hl7XML[1]))

\* C23: while a message is matched no step decreases segmentNo; a step
\* either leaves it or adds exactly one, and it adds one exactly when it
\* emits one segment, as a segment element or as an unexpected-segment
\* comment.
C23_CursorAdvancesWithEachEmission ==
    [][pc = "validateXML"
         => /\ segmentNo' \in {segmentNo, segmentNo + 1}
            /\ Emitted' - Emitted = segmentNo' - segmentNo]_vars

C23_ElementAndCommentEmitted ==
    /\ AtLoop
    /\ segmentNo = 3
    /\ Emitted = 3
    /\ Top.thisElement # << >>
    /\ \E n \in DOMAIN Top.thisElement[1].children :
          /\ Top.thisElement[1].children[n].tag = CommentTag
          /\ StartsWith(Top.thisElement[1].children[n].text, "Unexpected Segment at ")

\* the tags of the component elements that the components comps of a field
\* call for, from component k on: one for every component that is neither
\* empty nor a deletion marker, named by the datatype's sequence bits, or by
\* code and position where the sequence has no such position
RECURSIVE TagsFrom(_, _, _, _)
TagsFrom(comps, k, bits, code) ==
    IF k > Len(comps) THEN << >>
    ELSE (IF comps[k] \in {"", "\"\""} THEN << >>
          ELSE IF k <= Len(bits) THEN << bits[k].attrib.ref >>
          ELSE << code \o "." \o ToString(k) >>)
            \o TagsFrom(comps, k + 1, bits, code)

ElementTags(e) ==
    LET under == SelectSeq(e.children, LAMBDA c : c.tag # CommentTag)
    IN  [n \in DOMAIN under |-> under[n].tag]

\* C24: the fields PID-3 (CX) and PID-5 (XPN) of a valid PID segment in its
\* place after MSH and EVN have
\* component structure; each of them gets one field element, and under it
\* one component element for every component that is neither empty nor
\* deleted, in the order of the components.
C24_EveryComponentHasItsElement ==
    (Saved /\ ValidFields /\ Len(Segments) >= 3
           /\ SubSeq(CodesOf(Segments), 1, 3) = << "MSH", "EVN", "PID" >>)
        => \A i \in {3, 5} :
              LET ref == "PID." \o ToString(i)
                  fields == ChildrenTagged(ChildrenTagged(hl7XML[1], "PID")[1], ref)
              IN  /\ Len(fields) = 1
                  /\ ElementTags(fields[1])
                        = TagsFrom(Split(Field(3, i), compSep), 1,
                                   dataTypeSequences[fieldRoot[ref].Type],
                                   "PID-" \o ToString(i))

\* the component elements tagged ref under the field elements tagged field
\* of the segment elements tagged seg
ComponentElements(seg, field, ref) ==
    {c \in ElementsIn(hl7XML[1]) :
        /\ c.tag = ref
        /\ \E s \in ElementsIn(hl7XML[1]), f \in ElementsIn(hl7XML[1]) :
              /\ s.tag = seg /\ f.tag = field
              /\ InList(f, s.children) /\ InList(c, f.children)}

\* C25: the component OBX-3.1 is not split on the sub-component separator
\* although its type (FN) has sub-structure: the value 88&67 is the text of
\* the one element CWE.1, which has no sub-component elements; the
\* component PID-3.4 (HD) is split into its sub-components.
C25_ObservationIdentifierIsNotSplit ==
    /\ (Saved /\ ValidFields /\ InList("OBX|1|ST|88&67||72", Segments))
          => /\ ComponentElements("OBX", "OBX.3", "CWE.1") # {}
             /\ \A c \in ComponentElements("OBX", "OBX.3", "CWE.1") :
                   c.text = "88&67" /\ c.children = << >>
    /\ (Saved /\ InList("PID|1||123^^^HOSP&1.2&ISO||Doe", Segments))
          => /\ ComponentElements("PID", "PID.3", "CX.4") # {}
             /\ \A c \in ComponentElements("PID", "PID.3", "CX.4") :
                   ElementTags(c) = << "HD.1", "HD.2", "HD.3" >>

\* C26: the first component of a TS field is checked as a date/time and
\* only the second as a degree of precision, whatever the number of the
\* field in its segment: EVN-2 = 20230101 is a legal date/time in its first
\* component and so gets no diagnostic, in the document or in the report.
C26_RuleByPositionInParent ==
    (Saved /\ Len(Segments) >= 2 /\ Segments[2] = "EVN|A01|20230101")
        => /\ ~\E c \in CommentsIn(hl7XML[1]) : Contains(c, "[EVN-2.1]")
           /\ ~\E n \in DOMAIN ReportStream : Contains(ReportStream[n], "[EVN-2.1]")

\* C27: when the match of the message has returned and the document is
\* saved, every segment has been emitted: the cursor segmentNo stands at
\* the number of segments, and the document holds that many segment
\* elements and unexpected-segment comments.
C27_EverySegmentIsAccountedFor ==
    Saved => /\ segmentNo = Len(Segments)
             /\ Emitted = Len(Segments)

\* C28: an invocation of validateXML holds or returns no element exactly
\* when it has consumed no segment.  For the invocation of the main program,
\* entered with segmentNo = 0: while it is the only one running its element
\* is None exactly when segmentNo is still 0, and when it returns the value
\* returned is None exactly when segmentNo is still 0, so a returned element
\* comes with a cursor that has strictly advanced.
C28_NoneIffNothingConsumed ==
    [][/\ (pc' = "validateXML" /\ Len(stack') = 1)
            => ((stack'[1].thisElement = << >>) <=> (segmentNo' = 0))
       /\ (pc = "validateXML" /\ pc' = "save")
            => ((hl7XML' = << >>) <=> (segmentNo' = 0))]_vars

\* the main invocation has returned an element after consuming segments
C28_ElementReturnedAfterProgress ==
    pc = "save" /\ hl7XML # << >> /\ segmentNo > 0

\* C29: while validateXML runs the cursor is an index of the segment list:
\* 0 <= segmentNo < len(Segments) at every point where Segments[segmentNo]
\* is read (the depth guard at entry, the comparison, the unexpected-segment
\* message and the field split in the loop).
C29_CursorWithinSegments ==
    pc = "validateXML" => 0 <= segmentNo /\ segmentNo < Len(Segments)

\* the loop reads the last segment of a message of three or more, after one
\* that matched and one that was reported as unexpected
C29_ReadingLastSegment ==
    /\ AtLoop /\ HasRef
    /\ Len(Segments) >= 3 /\ segmentNo = Len(Segments) - 1
    /\ \E c \in CommentsIn(Top.thisElement[1]) : StartsWith(c, "Unexpected Segment")

\* the elements of field `field` in the segment elements `seg` of the
\* document, in document order
FieldElements(seg, field) ==
    LET segs == ChildrenTagged(hl7XML[1], seg)
    IN  IF segs = << >> THEN << >> ELSE ChildrenTagged(segs[1], field)

\* the values held by the element e and the elements under it
ValuesIn(e) == {x.text : x \in {y \in ElementsIn(e) : y.tag # CommentTag}} \ {None}

\* C30: a field with two non-deleted repetitions yields two field elements,
\* the first with the first repetition's value only and the second with the
\* second's only: for PID-3 = 123~""~456 the segment element PID holds two
\* PID.3 elements, the first with the value 123 and not 456, the second with
\* the value 456 and not 123.
C30_EachRepetitionHasItsElement ==
    (Saved /\ InList("PID|1||123~\"\"~456||Doe", Segments))
        => LET f == FieldElements("PID", "PID.3")
           IN  /\ Len(f) = 2
               /\ ValuesIn(f[1]) = {"123"}
               /\ ValuesIn(f[2]) = {"456"}

=============================================================================
